---- MODULE Spec2Model ----
(***************************************************************************)
(* Render-state synchronisation and draw dispatch of glium                 *)
(* (src/src/ops/draw.rs, src/src/draw_parameters/mod.rs).                  *)
(*                                                                         *)
(* The context's cached GL state (ctxt.state) and the device's own state   *)
(* are kept side by side; every gl call made by the code is appended to    *)
(* the log of the current draw call and applied to the device state.       *)
(* Floating point values are small integers: a depth-range component n     *)
(* stands for n/2 (0 -> 0.0, 1 -> 0.5, 2 -> 1.0, 3 -> 1.5); NaN is not     *)
(* represented.  A stencil mask is 1 for 0xffffffff and 0 for 0; a blend   *)
(* constant colour c stands for (c, c, c, c); a bounding box is 0 for the  *)
(* default box (-1 .. 1 on every axis) and 1 for another box.  GL          *)
(* enumerants are strings.  Option values: None is <<>>, Some(x) is <<x>>. *)
(***************************************************************************)
EXTENDS Integers, Sequences, FiniteSets, TLC

VARIABLES
    caps,       \* the capability profile of the context
    state,      \* the cached state of the context (ctxt.state)
    dev,        \* the state the device holds
    queries,    \* the lifecycle state of every query object
    log,        \* the commands emitted by the last call, in order
    result,     \* the result of the last call: "none" before the first one
    req,        \* the request of the last call
    before,     \* the cached state the last call started from
    app,        \* the workload of the application: the requests it makes
    prev,       \* [result, diff, queries]: the result of the call before the
                \* last one, the part in which the last two requests differ
                \* ({} when they are equal, {"many"} when they differ in
                \* several parts), and the query objects before the last call
    usage,      \* [bound, dropped]: the query objects bound by a successful
                \* draw, and those of them a later successful draw did not bind
    renderbuffers,  \* what every render buffer name is: "unused" (never
                \* generated, or deleted), "alive" (a RenderBufferAny owns
                \* it), "leaked" (its owner is gone, the name was not deleted)
    framebuffers    \* the framebuffer objects the context caches, each the
                \* set of the render buffers attached to it

vars == <<caps, state, dev, queries, log, result, req, before, app, prev, usage,
          renderbuffers, framebuffers>>

(***************************************************************************)
(* Bounds                                                                  *)
(***************************************************************************)
\* draw calls that may succeed in one behaviour (cap on next_draw_call_id)
MaxDraws == 3
\* render buffer names the device hands out: 1 .. MaxRenderBuffers
MaxRenderBuffers == 2
\* framebuffer objects the context caches at a time
MaxFramebuffers == 2

RenderBufferIds == 1 .. MaxRenderBuffers
\* the same cap for the behaviours that vary the vertex and index sources
MaxSourceDraws == 2
\* the same cap for the behaviours that exercise the query protocol
MaxQueryDraws == 3

(***************************************************************************)
(* Capability profile: version and extensions                              *)
(***************************************************************************)
\* Version comparison: versions of different APIs are not comparable, so
\* `ctxt.version >= &Version(api, major, minor)` is false on another API
\* (draw.rs:945-946: "it isn't on OpenGL ES").
VersionGE(v, api, major, minor) ==
    /\ v.api = api
    /\ \/ v.major > major
       \/ (v.major = major /\ v.minor >= minor)

VersionLE(v, api, major, minor) ==
    /\ v.api = api
    /\ \/ v.major < major
       \/ (v.major = major /\ v.minor <= minor)

VersionLT(v, api, major, minor) ==
    /\ v.api = api
    /\ \/ v.major < major
       \/ (v.major = major /\ v.minor < minor)

Ext(c, name) == name \in c.caps.extensions

Profile(api, major, minor, exts, mpv) ==
    [version |-> [api |-> api, major |-> major, minor |-> minor],
     extensions |-> exts,
     max_patch_vertices |-> mpv,
     max_viewport_dims |-> <<4, 4>>]

\* desktop GL 4.5: every core path
ProfGl45 == Profile("Gl", 4, 5, {}, 4)
\* desktop GL 2.1 without extensions: no clamp, no discard, no provoking vertex
ProfGl21 == Profile("Gl", 2, 1, {}, 0)
\* desktop GL 2.1 with the vendor extensions
ProfGl21Ext == Profile("Gl", 2, 1,
                  {"gl_amd_depth_clamp_separate", "gl_ext_transform_feedback",
                   "gl_ext_provoking_vertex", "gl_arb_es3_2_compatibility",
                   "gl_arb_draw_elements_base_vertex"}, 0)
\* OpenGL ES 2.0 without extensions
ProfGles20 == Profile("GlEs", 2, 0, {}, 0)
\* OpenGL ES 3.0 with the OES base-vertex extension
ProfGles30 == Profile("GlEs", 3, 0, {"gl_oes_draw_elements_base_vertex",
                                     "gl_oes_primitive_bounding_box"}, 0)
\* OpenGL ES 3.2
ProfGles32 == Profile("GlEs", 3, 2, {}, 4)

Profiles == {ProfGl45, ProfGl21, ProfGl21Ext, ProfGles20, ProfGles30, ProfGles32}

\* profiles that offer several ways to set the primitive bounding box, or
\* only the last one: ES 3.2 that still lists the extensions, desktop GL with
\* the compatibility extension and both ES extensions (and both
\* provoking-vertex extensions), ES 3.1 with both ES extensions, ES 3.1 with
\* the EXT extension alone
BoundingBoxProfiles ==
    { Profile("GlEs", 3, 2, {"gl_oes_primitive_bounding_box",
                             "gl_ext_primitive_bounding_box"}, 4),
      Profile("Gl", 2, 1, {"gl_arb_es3_2_compatibility",
                           "gl_oes_primitive_bounding_box",
                           "gl_ext_primitive_bounding_box",
                           "gl_arb_provoking_vertex",
                           "gl_ext_provoking_vertex"}, 0),
      Profile("GlEs", 3, 1, {"gl_oes_primitive_bounding_box",
                             "gl_ext_primitive_bounding_box"}, 0),
      Profile("GlEs", 3, 1, {"gl_ext_primitive_bounding_box"}, 0) }

\* the profiles of the state-synchronisation behaviours
SyncProfiles ==
    {ProfGl45, ProfGl21, ProfGl21Ext, ProfGles20, ProfGles32} \cup BoundingBoxProfiles

(***************************************************************************)
(* The device: state a GL implementation keeps, and the effect of the      *)
(* commands the code emits on it.                                          *)
(***************************************************************************)
NoQuery == 0

Categories == {"samples_passed", "time_elapsed", "primitives_generated",
               "transform_feedback_primitives_written"}

\* the state of a new context: the configuration the default parameters
\* describe, drawn on the default surface (4 x 4), so that the defaults cost
\* nothing against it; for the values the parameters do not name, those GL
\* documents as initial
FreshState ==
    [enabled_depth_clamp_near |-> FALSE,
     enabled_depth_clamp_far |-> FALSE,
     depth_range |-> <<0, 2>>,
     enabled_depth_test |-> FALSE,
     depth_func |-> "LESS",
     depth_mask |-> TRUE,
     stencil_func_back |-> <<"ALWAYS", 0, 0>>,
     stencil_func_front |-> <<"ALWAYS", 0, 0>>,
     stencil_mask_back |-> 1,
     stencil_mask_front |-> 1,
     stencil_op_back |-> <<"KEEP", "KEEP", "KEEP">>,
     stencil_op_front |-> <<"KEEP", "KEEP", "KEEP">>,
     enabled_stencil_test |-> FALSE,
     enabled_blend |-> FALSE,
     blend_equation |-> <<"FUNC_ADD", "FUNC_ADD">>,
     blend_func |-> <<"ONE", "ZERO", "ONE", "ZERO">>,
     blend_color |-> 0,
     color_mask |-> <<1, 1, 1, 1>>,
     line_width |-> 1,
     point_size |-> 1,
     enabled_cull_face |-> FALSE,
     cull_face |-> "BACK",
     polygon_mode |-> "FILL",
     enabled_multisample |-> TRUE,
     enabled_dither |-> TRUE,
     viewport |-> <<<<0, 0, 4, 4>>>>,
     scissor |-> <<>>,
     enabled_scissor_test |-> FALSE,
     enabled_rasterizer_discard |-> FALSE,
     patch_patch_vertices |-> 3,
     query |-> [c \in Categories |-> NoQuery],
     conditional_render |-> <<>>,
     enabled_line_smooth |-> FALSE,
     enabled_polygon_smooth |-> FALSE,
     smooth |-> <<"DONT_CARE", "DONT_CARE">>,
     provoking_vertex |-> "LAST_VERTEX_CONVENTION",
     primitive_bounding_box |-> 0,
     renderbuffer |-> 0,
     next_draw_call_id |-> 1]

\* the device starts in the state the fresh cache describes; the device has
\* no draw-call counter
FreshDevice == [FreshState EXCEPT !.next_draw_call_id = 0]

Cmd(op, a) == [op |-> op, a |-> a]

SetEnabled(d, cap, b) ==
    CASE cap = "DEPTH_CLAMP" ->
            [d EXCEPT !.enabled_depth_clamp_near = b, !.enabled_depth_clamp_far = b]
      [] cap = "DEPTH_CLAMP_NEAR_AMD" -> [d EXCEPT !.enabled_depth_clamp_near = b]
      [] cap = "DEPTH_CLAMP_FAR_AMD" -> [d EXCEPT !.enabled_depth_clamp_far = b]
      [] cap = "DEPTH_TEST" -> [d EXCEPT !.enabled_depth_test = b]
      [] cap = "STENCIL_TEST" -> [d EXCEPT !.enabled_stencil_test = b]
      [] cap = "BLEND" -> [d EXCEPT !.enabled_blend = b]
      [] cap = "CULL_FACE" -> [d EXCEPT !.enabled_cull_face = b]
      [] cap = "MULTISAMPLE" -> [d EXCEPT !.enabled_multisample = b]
      [] cap = "DITHER" -> [d EXCEPT !.enabled_dither = b]
      [] cap = "SCISSOR_TEST" -> [d EXCEPT !.enabled_scissor_test = b]
      [] cap \in {"RASTERIZER_DISCARD", "RASTERIZER_DISCARD_EXT"} ->
            [d EXCEPT !.enabled_rasterizer_discard = b]
      [] cap = "LINE_SMOOTH" -> [d EXCEPT !.enabled_line_smooth = b]
      [] cap = "POLYGON_SMOOTH" -> [d EXCEPT !.enabled_polygon_smooth = b]
      [] OTHER -> d

\* the effect of one emitted command on the device
DeviceApply(d, cmd) ==
    CASE cmd.op = "Enable" -> SetEnabled(d, cmd.a, TRUE)
      [] cmd.op = "Disable" -> SetEnabled(d, cmd.a, FALSE)
      [] cmd.op = "DepthRange" -> [d EXCEPT !.depth_range = cmd.a]
      [] cmd.op = "DepthFunc" -> [d EXCEPT !.depth_func = cmd.a]
      [] cmd.op = "DepthMask" -> [d EXCEPT !.depth_mask = cmd.a]
      [] cmd.op = "StencilFuncSeparate" ->
            IF cmd.a[1] = "BACK"
            THEN [d EXCEPT !.stencil_func_back = <<cmd.a[2], cmd.a[3], cmd.a[4]>>]
            ELSE [d EXCEPT !.stencil_func_front = <<cmd.a[2], cmd.a[3], cmd.a[4]>>]
      [] cmd.op = "StencilMaskSeparate" ->
            IF cmd.a[1] = "BACK"
            THEN [d EXCEPT !.stencil_mask_back = cmd.a[2]]
            ELSE [d EXCEPT !.stencil_mask_front = cmd.a[2]]
      [] cmd.op = "StencilOpSeparate" ->
            IF cmd.a[1] = "BACK"
            THEN [d EXCEPT !.stencil_op_back = <<cmd.a[2], cmd.a[3], cmd.a[4]>>]
            ELSE [d EXCEPT !.stencil_op_front = <<cmd.a[2], cmd.a[3], cmd.a[4]>>]
      [] cmd.op = "BlendEquationSeparate" -> [d EXCEPT !.blend_equation = cmd.a]
      [] cmd.op = "BlendFuncSeparate" -> [d EXCEPT !.blend_func = cmd.a]
      [] cmd.op = "BlendColor" -> [d EXCEPT !.blend_color = cmd.a]
      [] cmd.op = "ColorMask" -> [d EXCEPT !.color_mask = cmd.a]
      [] cmd.op = "LineWidth" -> [d EXCEPT !.line_width = cmd.a]
      [] cmd.op = "PointSize" -> [d EXCEPT !.point_size = cmd.a]
      [] cmd.op = "CullFace" -> [d EXCEPT !.cull_face = cmd.a]
      [] cmd.op = "PolygonMode" -> [d EXCEPT !.polygon_mode = cmd.a[2]]
      [] cmd.op = "Viewport" -> [d EXCEPT !.viewport = cmd.a]
      [] cmd.op = "Scissor" -> [d EXCEPT !.scissor = cmd.a]
      [] cmd.op = "PatchParameteri" -> [d EXCEPT !.patch_patch_vertices = cmd.a[2]]
      [] cmd.op = "BeginQuery" -> [d EXCEPT !.query[cmd.a[1]] = cmd.a[2]]
      [] cmd.op = "EndQuery" -> [d EXCEPT !.query[cmd.a[1]] = NoQuery]
      [] cmd.op = "BeginConditionalRender" -> [d EXCEPT !.conditional_render = cmd.a]
      [] cmd.op = "EndConditionalRender" -> [d EXCEPT !.conditional_render = <<>>]
      [] cmd.op = "Hint" ->
            IF cmd.a[1] = "LINE_SMOOTH_HINT"
            THEN [d EXCEPT !.smooth[1] = cmd.a[2]]
            ELSE [d EXCEPT !.smooth[2] = cmd.a[2]]
      [] cmd.op \in {"ProvokingVertex", "ProvokingVertexEXT"} ->
            [d EXCEPT !.provoking_vertex = cmd.a]
      [] cmd.op \in {"PrimitiveBoundingBox", "PrimitiveBoundingBoxARB",
                     "PrimitiveBoundingBoxOES", "PrimitiveBoundingBoxEXT"} ->
            [d EXCEPT !.primitive_bounding_box = cmd.a]
      [] cmd.op \in {"BindRenderbuffer", "BindRenderbufferEXT"} ->
            [d EXCEPT !.renderbuffer = cmd.a]
      [] cmd.op \in {"DeleteRenderbuffers", "DeleteRenderbuffersEXT"} ->
            IF d.renderbuffer = cmd.a THEN [d EXCEPT !.renderbuffer = 0] ELSE d
      [] OTHER -> d

(***************************************************************************)
(* The command context threaded through one draw call:                     *)
(*   caps    the capability profile (ctxt.version, ctxt.extensions, ...)   *)
(*   state   the cached state (ctxt.state)                                 *)
(*   dev     the device state                                              *)
(*   queries the query objects                                             *)
(*   log     the commands emitted by this call, in order                   *)
(*   fences  the fences collected by this call                             *)
(*   err     "none", or the DrawError / "panic" that ended the call        *)
(***************************************************************************)
\* ctxt.gl.<op>(a): the command is issued to the device
Emit(c, op, a) ==
    [c EXCEPT !.log = Append(@, Cmd(op, a)),
              !.dev = DeviceApply(@, Cmd(op, a))]

\* ctxt.state.<field> = v
Set(c, st) == [c EXCEPT !.state = st]

Fail(c, e) == [c EXCEPT !.err = e]

\* a step has returned Err (or panicked)
Failed(c) == c.err # "none"

(***************************************************************************)
(* ToGlEnum conversions (draw_parameters/mod.rs)                           *)
(***************************************************************************)
DepthTestToGlenum(t) ==
    CASE t = "Ignore" -> "NEVER"
      [] t = "Overwrite" -> "ALWAYS"
      [] t = "IfEqual" -> "EQUAL"
      [] t = "IfNotEqual" -> "NOTEQUAL"
      [] t = "IfMore" -> "GREATER"
      [] t = "IfMoreOrEqual" -> "GEQUAL"
      [] t = "IfLess" -> "LESS"
      [] t = "IfLessOrEqual" -> "LEQUAL"

StencilOperationToGlenum(o) ==
    CASE o = "Keep" -> "KEEP"
      [] o = "Zero" -> "ZERO"
      [] o = "Replace" -> "REPLACE"
      [] o = "Increment" -> "INCR"
      [] o = "IncrementWrap" -> "INCR_WRAP"
      [] o = "Decrement" -> "DECR"
      [] o = "DecrementWrap" -> "DECR_WRAP"
      [] o = "Invert" -> "INVERT"

LinearBlendingFactorToGlenum(f) ==
    CASE f = "Zero" -> "ZERO"
      [] f = "One" -> "ONE"
      [] f = "SourceColor" -> "SRC_COLOR"
      [] f = "OneMinusSourceColor" -> "ONE_MINUS_SRC_COLOR"
      [] f = "DestinationColor" -> "DST_COLOR"
      [] f = "OneMinusDestinationColor" -> "ONE_MINUS_DST_COLOR"
      [] f = "SourceAlpha" -> "SRC_ALPHA"
      [] f = "OneMinusSourceAlpha" -> "ONE_MINUS_SRC_ALPHA"
      [] f = "DestinationAlpha" -> "DST_ALPHA"
      [] f = "OneMinusDestinationAlpha" -> "ONE_MINUS_DST_ALPHA"
      [] f = "SourceAlphaSaturate" -> "SRC_ALPHA_SATURATE"
      [] f = "ConstantColor" -> "CONSTANT_COLOR"
      [] f = "OneMinusConstantColor" -> "ONE_MINUS_CONSTANT_COLOR"
      [] f = "ConstantAlpha" -> "CONSTANT_ALPHA"
      [] f = "OneMinusConstantAlpha" -> "ONE_MINUS_CONSTANT_ALPHA"

PolygonModeToGlenum(m) ==
    CASE m = "Point" -> "POINT"
      [] m = "Line" -> "LINE"
      [] m = "Fill" -> "FILL"

SmoothToGlenum(s) ==
    CASE s = "Fastest" -> "FASTEST"
      [] s = "Nicest" -> "NICEST"
      [] s = "DontCare" -> "DONT_CARE"

(***************************************************************************)
(* sync_depth (draw.rs:369-492)                                            *)
(***************************************************************************)
\* the combined depth clamp is available
HasDepthClamp(c) ==
    \/ VersionGE(c.caps.version, "Gl", 3, 0)
    \/ Ext(c, "gl_arb_depth_clamp")
    \/ Ext(c, "gl_nv_depth_clamp")

\* the `match (depth_clamp, near, far)` of sync_depth, arms in source order
\* mutation: a split clamp without the extension is silently ignored
sync_depth_clamp_ignored(c, depth_clamp) ==
    LET near == c.state.enabled_depth_clamp_near
        far == c.state.enabled_depth_clamp_far
        amd == Ext(c, "gl_amd_depth_clamp_separate")
        NotSupported == IF depth_clamp \in {"ClampNear", "ClampFar"} THEN c
                        ELSE Fail(c, "DepthClampNotSupported")
    IN  IF depth_clamp = "NoClamp" /\ ~near /\ ~far THEN c
        ELSE IF depth_clamp = "Clamp" /\ near /\ far THEN c
        ELSE IF depth_clamp = "NoClamp" THEN
            IF HasDepthClamp(c)
            THEN Set(Emit(c, "Disable", "DEPTH_CLAMP"),
                     [c.state EXCEPT !.enabled_depth_clamp_near = FALSE,
                                     !.enabled_depth_clamp_far = FALSE])
            ELSE NotSupported
        ELSE IF depth_clamp = "Clamp" THEN
            IF HasDepthClamp(c)
            THEN Set(Emit(c, "Enable", "DEPTH_CLAMP"),
                     [c.state EXCEPT !.enabled_depth_clamp_near = TRUE,
                                     !.enabled_depth_clamp_far = TRUE])
            ELSE NotSupported
        ELSE IF depth_clamp = "ClampNear" /\ near /\ ~far THEN c
        ELSE IF depth_clamp = "ClampFar" /\ ~near /\ far THEN c
        ELSE IF depth_clamp = "ClampNear" /\ near THEN
            IF amd
            THEN Set(Emit(c, "Disable", "DEPTH_CLAMP_FAR_AMD"),
                     [c.state EXCEPT !.enabled_depth_clamp_far = FALSE])
            ELSE NotSupported
        ELSE IF depth_clamp = "ClampNear" THEN
            IF amd
            THEN LET c1 == Emit(c, "Enable", "DEPTH_CLAMP_NEAR_AMD")
                     c2 == IF far THEN Emit(c1, "Disable", "DEPTH_CLAMP_FAR_AMD") ELSE c1
                 IN  Set(c2, [c.state EXCEPT !.enabled_depth_clamp_near = TRUE,
                                             !.enabled_depth_clamp_far = FALSE])
            ELSE NotSupported
        ELSE IF depth_clamp = "ClampFar" /\ far THEN
            IF amd
            THEN Set(Emit(c, "Disable", "DEPTH_CLAMP_NEAR_AMD"),
                     [c.state EXCEPT !.enabled_depth_clamp_near = FALSE])
            ELSE NotSupported
        ELSE
            IF amd
            THEN LET c1 == Emit(c, "Enable", "DEPTH_CLAMP_FAR_AMD")
                     c2 == IF near THEN Emit(c1, "Disable", "DEPTH_CLAMP_NEAR_AMD") ELSE c1
                 IN  Set(c2, [c.state EXCEPT !.enabled_depth_clamp_near = FALSE,
                                             !.enabled_depth_clamp_far = TRUE])
            ELSE NotSupported

\* mutation: the split arms act without testing gl_amd_depth_clamp_separate
sync_depth_clamp_split_unchecked(c, depth_clamp) ==
    LET near == c.state.enabled_depth_clamp_near
        far == c.state.enabled_depth_clamp_far
        amd == TRUE
        NotSupported == Fail(c, "DepthClampNotSupported")
    IN  IF depth_clamp = "NoClamp" /\ ~near /\ ~far THEN c
        ELSE IF depth_clamp = "Clamp" /\ near /\ far THEN c
        ELSE IF depth_clamp = "NoClamp" THEN
            IF HasDepthClamp(c)
            THEN Set(Emit(c, "Disable", "DEPTH_CLAMP"),
                     [c.state EXCEPT !.enabled_depth_clamp_near = FALSE,
                                     !.enabled_depth_clamp_far = FALSE])
            ELSE NotSupported
        ELSE IF depth_clamp = "Clamp" THEN
            IF HasDepthClamp(c)
            THEN Set(Emit(c, "Enable", "DEPTH_CLAMP"),
                     [c.state EXCEPT !.enabled_depth_clamp_near = TRUE,
                                     !.enabled_depth_clamp_far = TRUE])
            ELSE NotSupported
        ELSE IF depth_clamp = "ClampNear" /\ near /\ ~far THEN c
        ELSE IF depth_clamp = "ClampFar" /\ ~near /\ far THEN c
        ELSE IF depth_clamp = "ClampNear" /\ near THEN
            IF amd
            THEN Set(Emit(c, "Disable", "DEPTH_CLAMP_FAR_AMD"),
                     [c.state EXCEPT !.enabled_depth_clamp_far = FALSE])
            ELSE NotSupported
        ELSE IF depth_clamp = "ClampNear" THEN
            IF amd
            THEN LET c1 == Emit(c, "Enable", "DEPTH_CLAMP_NEAR_AMD")
                     c2 == IF far THEN Emit(c1, "Disable", "DEPTH_CLAMP_FAR_AMD") ELSE c1
                 IN  Set(c2, [c.state EXCEPT !.enabled_depth_clamp_near = TRUE,
                                             !.enabled_depth_clamp_far = FALSE])
            ELSE NotSupported
        ELSE IF depth_clamp = "ClampFar" /\ far THEN
            IF amd
            THEN Set(Emit(c, "Disable", "DEPTH_CLAMP_NEAR_AMD"),
                     [c.state EXCEPT !.enabled_depth_clamp_near = FALSE])
            ELSE NotSupported
        ELSE
            IF amd
            THEN LET c1 == Emit(c, "Enable", "DEPTH_CLAMP_FAR_AMD")
                     c2 == IF near THEN Emit(c1, "Disable", "DEPTH_CLAMP_NEAR_AMD") ELSE c1
                 IN  Set(c2, [c.state EXCEPT !.enabled_depth_clamp_near = FALSE,
                                             !.enabled_depth_clamp_far = TRUE])
            ELSE NotSupported

sync_depth_clamp(c, depth_clamp) ==
    LET near == c.state.enabled_depth_clamp_near
        far == c.state.enabled_depth_clamp_far
        amd == Ext(c, "gl_amd_depth_clamp_separate")
        NotSupported == Fail(c, "DepthClampNotSupported")
    IN  IF depth_clamp = "NoClamp" /\ ~near /\ ~far THEN c
        ELSE IF depth_clamp = "Clamp" /\ near /\ far THEN c
        ELSE IF depth_clamp = "NoClamp" THEN
            IF HasDepthClamp(c)
            THEN Set(Emit(c, "Disable", "DEPTH_CLAMP"),
                     [c.state EXCEPT !.enabled_depth_clamp_near = FALSE,
                                     !.enabled_depth_clamp_far = FALSE])
            ELSE NotSupported
        ELSE IF depth_clamp = "Clamp" THEN
            IF HasDepthClamp(c)
            THEN Set(Emit(c, "Enable", "DEPTH_CLAMP"),
                     [c.state EXCEPT !.enabled_depth_clamp_near = TRUE,
                                     !.enabled_depth_clamp_far = TRUE])
            ELSE NotSupported
        ELSE IF depth_clamp = "ClampNear" /\ near /\ ~far THEN c
        ELSE IF depth_clamp = "ClampFar" /\ ~near /\ far THEN c
        ELSE IF depth_clamp = "ClampNear" /\ near THEN
            IF amd
            THEN Set(Emit(c, "Disable", "DEPTH_CLAMP_FAR_AMD"),
                     [c.state EXCEPT !.enabled_depth_clamp_far = FALSE])
            ELSE NotSupported
        ELSE IF depth_clamp = "ClampNear" THEN
            IF amd
            THEN LET c1 == Emit(c, "Enable", "DEPTH_CLAMP_NEAR_AMD")
                     c2 == IF far THEN Emit(c1, "Disable", "DEPTH_CLAMP_FAR_AMD") ELSE c1
                 IN  Set(c2, [c.state EXCEPT !.enabled_depth_clamp_near = TRUE,
                                             !.enabled_depth_clamp_far = FALSE])
            ELSE NotSupported
        ELSE IF depth_clamp = "ClampFar" /\ far THEN
            IF amd
            THEN Set(Emit(c, "Disable", "DEPTH_CLAMP_NEAR_AMD"),
                     [c.state EXCEPT !.enabled_depth_clamp_near = FALSE])
            ELSE NotSupported
        ELSE
            IF amd
            THEN LET c1 == Emit(c, "Enable", "DEPTH_CLAMP_FAR_AMD")
                     c2 == IF near THEN Emit(c1, "Disable", "DEPTH_CLAMP_NEAR_AMD") ELSE c1
                 IN  Set(c2, [c.state EXCEPT !.enabled_depth_clamp_near = FALSE,
                                             !.enabled_depth_clamp_far = TRUE])
            ELSE NotSupported

\* "depth range"
sync_depth_range(c, depth_range) ==
    IF depth_range # c.state.depth_range
    THEN Set(Emit(c, "DepthRange", depth_range),
             [c.state EXCEPT !.depth_range = depth_range])
    ELSE c

\* the GL_DEPTH_TEST toggle, then "depth test" and "depth mask"
\* mutation: Overwrite without depth write is synchronised like any other
\* depth test
sync_depth_test_no_collapse(c, depth_test, depth_write) ==
    LET func == DepthTestToGlenum(depth_test)
        Enable(x) == IF ~x.state.enabled_depth_test
                     THEN Set(Emit(x, "Enable", "DEPTH_TEST"),
                              [x.state EXCEPT !.enabled_depth_test = TRUE])
                     ELSE x
        Func(x) == IF x.state.depth_func # func
                   THEN Set(Emit(x, "DepthFunc", func),
                            [x.state EXCEPT !.depth_func = func])
                   ELSE x
        Mask(x) == IF depth_write # x.state.depth_mask
                   THEN Set(Emit(x, "DepthMask", depth_write),
                            [x.state EXCEPT !.depth_mask = depth_write])
                   ELSE x
    IN  Mask(Func(Enable(c)))

sync_depth_test(c, depth_test, depth_write) ==
    LET func == DepthTestToGlenum(depth_test)
        Enable(x) == IF ~x.state.enabled_depth_test
                     THEN Set(Emit(x, "Enable", "DEPTH_TEST"),
                              [x.state EXCEPT !.enabled_depth_test = TRUE])
                     ELSE x
        Func(x) == IF x.state.depth_func # func
                   THEN Set(Emit(x, "DepthFunc", func),
                            [x.state EXCEPT !.depth_func = func])
                   ELSE x
        Mask(x) == IF depth_write # x.state.depth_mask
                   THEN Set(Emit(x, "DepthMask", depth_write),
                            [x.state EXCEPT !.depth_mask = depth_write])
                   ELSE x
    IN  IF depth_test = "Overwrite" /\ ~depth_write
        THEN \* simply disabling GL_DEPTH_TEST
             IF c.state.enabled_depth_test
             THEN Set(Emit(c, "Disable", "DEPTH_TEST"),
                      [c.state EXCEPT !.enabled_depth_test = FALSE])
             ELSE c
        ELSE Mask(Func(Enable(c)))

sync_depth(c, depth_test, depth_write, depth_range, depth_clamp) ==
    LET RangeAndTest(x) ==
            IF Failed(x) THEN x
            ELSE sync_depth_test(sync_depth_range(x, depth_range), depth_test, depth_write)
    IN  RangeAndTest(sync_depth_clamp(c, depth_clamp))

(***************************************************************************)
(* sync_stencil (draw.rs:494-568)                                          *)
(***************************************************************************)
\* a StencilTest is [test, mask]; the tests without a mask carry mask 0
\* mutation: AlwaysPass reads the stencil buffer through a mask of all ones
StencilTestGl_full_mask(t) ==
    CASE t.test = "AlwaysPass" -> <<"ALWAYS", 1>>
      [] t.test = "AlwaysFail" -> <<"NEVER", 0>>
      [] t.test = "IfLess" -> <<"LESS", t.mask>>
      [] t.test = "IfLessOrEqual" -> <<"LEQUAL", t.mask>>
      [] t.test = "IfMore" -> <<"GREATER", t.mask>>
      [] t.test = "IfMoreOrEqual" -> <<"GEQUAL", t.mask>>
      [] t.test = "IfEqual" -> <<"EQUAL", t.mask>>
      [] t.test = "IfNotEqual" -> <<"NOTEQUAL", t.mask>>

StencilTestGl(t) ==
    CASE t.test = "AlwaysPass" -> <<"ALWAYS", 0>>
      [] t.test = "AlwaysFail" -> <<"NEVER", 0>>
      [] t.test = "IfLess" -> <<"LESS", t.mask>>
      [] t.test = "IfLessOrEqual" -> <<"LEQUAL", t.mask>>
      [] t.test = "IfMore" -> <<"GREATER", t.mask>>
      [] t.test = "IfMoreOrEqual" -> <<"GEQUAL", t.mask>>
      [] t.test = "IfEqual" -> <<"EQUAL", t.mask>>
      [] t.test = "IfNotEqual" -> <<"NOTEQUAL", t.mask>>

\* mutation: the operations do not count for the enable flag
sync_stencil_tests_only(c, params) ==
    LET cw == StencilTestGl(params.stencil_test_clockwise)
        ccw == StencilTestGl(params.stencil_test_counter_clockwise)
        func_back == <<cw[1], params.stencil_reference_value_clockwise, cw[2]>>
        func_front == <<ccw[1], params.stencil_reference_value_counter_clockwise, ccw[2]>>
        op_back == <<StencilOperationToGlenum(params.stencil_fail_operation_clockwise),
                     StencilOperationToGlenum(params.stencil_pass_depth_fail_operation_clockwise),
                     StencilOperationToGlenum(params.stencil_depth_pass_operation_clockwise)>>
        op_front == <<StencilOperationToGlenum(params.stencil_fail_operation_counter_clockwise),
                      StencilOperationToGlenum(params.stencil_pass_depth_fail_operation_counter_clockwise),
                      StencilOperationToGlenum(params.stencil_depth_pass_operation_counter_clockwise)>>
        enable_stencil == cw[1] # "ALWAYS" \/ ccw[1] # "ALWAYS"
        FuncBack(x) ==
            IF x.state.stencil_func_back # func_back
            THEN Set(Emit(x, "StencilFuncSeparate",
                          <<"BACK", func_back[1], func_back[2], func_back[3]>>),
                     [x.state EXCEPT !.stencil_func_back = func_back])
            ELSE x
        FuncFront(x) ==
            IF x.state.stencil_func_front # func_front
            THEN Set(Emit(x, "StencilFuncSeparate",
                          <<"FRONT", func_front[1], func_front[2], func_front[3]>>),
                     [x.state EXCEPT !.stencil_func_front = func_front])
            ELSE x
        MaskBack(x) ==
            IF x.state.stencil_mask_back # params.stencil_write_mask_clockwise
            THEN Set(Emit(x, "StencilMaskSeparate",
                          <<"BACK", params.stencil_write_mask_clockwise>>),
                     [x.state EXCEPT !.stencil_mask_back =
                                         params.stencil_write_mask_clockwise])
            ELSE x
        \* the front mask is synchronised with the clockwise parameter too
        MaskFront(x) ==
            IF x.state.stencil_mask_front # params.stencil_write_mask_clockwise
            THEN Set(Emit(x, "StencilMaskSeparate",
                          <<"FRONT", params.stencil_write_mask_clockwise>>),
                     [x.state EXCEPT !.stencil_mask_front =
                                         params.stencil_write_mask_clockwise])
            ELSE x
        OpBack(x) ==
            IF x.state.stencil_op_back # op_back
            THEN Set(Emit(x, "StencilOpSeparate",
                          <<"BACK", op_back[1], op_back[2], op_back[3]>>),
                     [x.state EXCEPT !.stencil_op_back = op_back])
            ELSE x
        OpFront(x) ==
            IF x.state.stencil_op_front # op_front
            THEN Set(Emit(x, "StencilOpSeparate",
                          <<"FRONT", op_front[1], op_front[2], op_front[3]>>),
                     [x.state EXCEPT !.stencil_op_front = op_front])
            ELSE x
        EnableStencil(x) ==
            IF x.state.enabled_stencil_test # enable_stencil
            THEN Set(Emit(x, IF enable_stencil THEN "Enable" ELSE "Disable",
                          "STENCIL_TEST"),
                     [x.state EXCEPT !.enabled_stencil_test = enable_stencil])
            ELSE x
    IN  EnableStencil(OpFront(OpBack(MaskFront(MaskBack(FuncFront(FuncBack(c)))))))

sync_stencil(c, params) ==
    LET cw == StencilTestGl(params.stencil_test_clockwise)
        ccw == StencilTestGl(params.stencil_test_counter_clockwise)
        func_back == <<cw[1], params.stencil_reference_value_clockwise, cw[2]>>
        func_front == <<ccw[1], params.stencil_reference_value_counter_clockwise, ccw[2]>>
        op_back == <<StencilOperationToGlenum(params.stencil_fail_operation_clockwise),
                     StencilOperationToGlenum(params.stencil_pass_depth_fail_operation_clockwise),
                     StencilOperationToGlenum(params.stencil_depth_pass_operation_clockwise)>>
        op_front == <<StencilOperationToGlenum(params.stencil_fail_operation_counter_clockwise),
                      StencilOperationToGlenum(params.stencil_pass_depth_fail_operation_counter_clockwise),
                      StencilOperationToGlenum(params.stencil_depth_pass_operation_counter_clockwise)>>
        enable_stencil == \/ cw[1] # "ALWAYS" \/ ccw[1] # "ALWAYS"
                          \/ op_back[1] # "KEEP" \/ op_front[1] # "KEEP"
                          \/ op_back[2] # "KEEP" \/ op_front[2] # "KEEP"
                          \/ op_back[3] # "KEEP" \/ op_front[3] # "KEEP"
        FuncBack(x) ==
            IF x.state.stencil_func_back # func_back
            THEN Set(Emit(x, "StencilFuncSeparate",
                          <<"BACK", func_back[1], func_back[2], func_back[3]>>),
                     [x.state EXCEPT !.stencil_func_back = func_back])
            ELSE x
        FuncFront(x) ==
            IF x.state.stencil_func_front # func_front
            THEN Set(Emit(x, "StencilFuncSeparate",
                          <<"FRONT", func_front[1], func_front[2], func_front[3]>>),
                     [x.state EXCEPT !.stencil_func_front = func_front])
            ELSE x
        MaskBack(x) ==
            IF x.state.stencil_mask_back # params.stencil_write_mask_clockwise
            THEN Set(Emit(x, "StencilMaskSeparate",
                          <<"BACK", params.stencil_write_mask_clockwise>>),
                     [x.state EXCEPT !.stencil_mask_back =
                                         params.stencil_write_mask_clockwise])
            ELSE x
        \* the front mask is synchronised with the clockwise parameter too
        MaskFront(x) ==
            IF x.state.stencil_mask_front # params.stencil_write_mask_clockwise
            THEN Set(Emit(x, "StencilMaskSeparate",
                          <<"FRONT", params.stencil_write_mask_clockwise>>),
                     [x.state EXCEPT !.stencil_mask_front =
                                         params.stencil_write_mask_clockwise])
            ELSE x
        OpBack(x) ==
            IF x.state.stencil_op_back # op_back
            THEN Set(Emit(x, "StencilOpSeparate",
                          <<"BACK", op_back[1], op_back[2], op_back[3]>>),
                     [x.state EXCEPT !.stencil_op_back = op_back])
            ELSE x
        OpFront(x) ==
            IF x.state.stencil_op_front # op_front
            THEN Set(Emit(x, "StencilOpSeparate",
                          <<"FRONT", op_front[1], op_front[2], op_front[3]>>),
                     [x.state EXCEPT !.stencil_op_front = op_front])
            ELSE x
        EnableStencil(x) ==
            IF x.state.enabled_stencil_test # enable_stencil
            THEN Set(Emit(x, IF enable_stencil THEN "Enable" ELSE "Disable",
                          "STENCIL_TEST"),
                     [x.state EXCEPT !.enabled_stencil_test = enable_stencil])
            ELSE x
    IN  EnableStencil(OpFront(OpBack(MaskFront(MaskBack(FuncFront(FuncBack(c)))))))

(***************************************************************************)
(* sync_blending (draw.rs:570-670)                                         *)
(***************************************************************************)
\* a BlendingFunction is [f, source, destination]; AlwaysReplace, Min and
\* Max carry no factors
blend_eq(c, blending_function) ==
    CASE blending_function.f \in {"AlwaysReplace", "Addition"} -> "FUNC_ADD"
      [] blending_function.f = "Subtraction" -> "FUNC_SUBTRACT"
      [] blending_function.f = "ReverseSubtraction" -> "FUNC_REVERSE_SUBTRACT"
      [] blending_function.f = "Min" ->
            IF VersionLE(c.caps.version, "GlEs", 2, 0) /\ ~Ext(c, "gl_ext_blend_minmax")
            THEN "Err" ELSE "MIN"
      [] blending_function.f = "Max" ->
            IF VersionLE(c.caps.version, "GlEs", 2, 0) /\ ~Ext(c, "gl_ext_blend_minmax")
            THEN "Err" ELSE "MAX"

\* Map to dummy factors if the blending equation does not use the factors.
blending_factors(blending_function) ==
    IF blending_function.f \in {"AlwaysReplace", "Min", "Max"}
    THEN <<"One", "Zero">>
    ELSE <<blending_function.source, blending_function.destination>>

\* mutation: a blend of two AlwaysReplace functions is synchronised like any
\* other blend
sync_blending_always_enabled(c, blend) ==
    LET color_eq == blend_eq(c, blend.color)
        alpha_eq == blend_eq(c, blend.alpha)
        cf == blending_factors(blend.color)
        af == blending_factors(blend.alpha)
        func == <<LinearBlendingFactorToGlenum(cf[1]), LinearBlendingFactorToGlenum(cf[2]),
                  LinearBlendingFactorToGlenum(af[1]), LinearBlendingFactorToGlenum(af[2])>>
        Enable(x) == IF ~x.state.enabled_blend
                     THEN Set(Emit(x, "Enable", "BLEND"),
                              [x.state EXCEPT !.enabled_blend = TRUE])
                     ELSE x
        Equation(x) == IF x.state.blend_equation # <<color_eq, alpha_eq>>
                       THEN Set(Emit(x, "BlendEquationSeparate", <<color_eq, alpha_eq>>),
                                [x.state EXCEPT !.blend_equation = <<color_eq, alpha_eq>>])
                       ELSE x
        Func(x) == IF x.state.blend_func # func
                   THEN Set(Emit(x, "BlendFuncSeparate", func),
                            [x.state EXCEPT !.blend_func = func])
                   ELSE x
        \* Update blend color.
        Color(x) == IF x.state.blend_color # blend.constant_value
                    THEN Set(Emit(x, "BlendColor", blend.constant_value),
                             [x.state EXCEPT !.blend_color = blend.constant_value])
                    ELSE x
    IN  IF color_eq = "Err" \/ alpha_eq = "Err"
        THEN Fail(Enable(c), "BlendingParameterNotSupported")
        ELSE Color(Func(Equation(Enable(c))))

\* mutation: an unsupported equation is reported after the constant color is
\* written
sync_blending_fails_late(c, blend) ==
    LET color_eq == blend_eq(c, blend.color)
        alpha_eq == blend_eq(c, blend.alpha)
        cf == blending_factors(blend.color)
        af == blending_factors(blend.alpha)
        func == <<LinearBlendingFactorToGlenum(cf[1]), LinearBlendingFactorToGlenum(cf[2]),
                  LinearBlendingFactorToGlenum(af[1]), LinearBlendingFactorToGlenum(af[2])>>
        Enable(x) == IF ~x.state.enabled_blend
                     THEN Set(Emit(x, "Enable", "BLEND"),
                              [x.state EXCEPT !.enabled_blend = TRUE])
                     ELSE x
        Equation(x) == IF x.state.blend_equation # <<color_eq, alpha_eq>>
                       THEN Set(Emit(x, "BlendEquationSeparate", <<color_eq, alpha_eq>>),
                                [x.state EXCEPT !.blend_equation = <<color_eq, alpha_eq>>])
                       ELSE x
        Func(x) == IF x.state.blend_func # func
                   THEN Set(Emit(x, "BlendFuncSeparate", func),
                            [x.state EXCEPT !.blend_func = func])
                   ELSE x
        \* Update blend color.
        Color(x) == IF x.state.blend_color # blend.constant_value
                    THEN Set(Emit(x, "BlendColor", blend.constant_value),
                             [x.state EXCEPT !.blend_color = blend.constant_value])
                    ELSE x
    IN  IF blend.color.f = "AlwaysReplace" /\ blend.alpha.f = "AlwaysReplace"
        THEN \* Both color and alpha always replace. This equals no blending.
             IF c.state.enabled_blend
             THEN Set(Emit(c, "Disable", "BLEND"), [c.state EXCEPT !.enabled_blend = FALSE])
             ELSE c
        ELSE IF color_eq = "Err" \/ alpha_eq = "Err"
             THEN Fail(Color(Enable(c)), "BlendingParameterNotSupported")
             ELSE Color(Func(Equation(Enable(c))))

sync_blending(c, blend) ==
    LET color_eq == blend_eq(c, blend.color)
        alpha_eq == blend_eq(c, blend.alpha)
        cf == blending_factors(blend.color)
        af == blending_factors(blend.alpha)
        func == <<LinearBlendingFactorToGlenum(cf[1]), LinearBlendingFactorToGlenum(cf[2]),
                  LinearBlendingFactorToGlenum(af[1]), LinearBlendingFactorToGlenum(af[2])>>
        Enable(x) == IF ~x.state.enabled_blend
                     THEN Set(Emit(x, "Enable", "BLEND"),
                              [x.state EXCEPT !.enabled_blend = TRUE])
                     ELSE x
        Equation(x) == IF x.state.blend_equation # <<color_eq, alpha_eq>>
                       THEN Set(Emit(x, "BlendEquationSeparate", <<color_eq, alpha_eq>>),
                                [x.state EXCEPT !.blend_equation = <<color_eq, alpha_eq>>])
                       ELSE x
        Func(x) == IF x.state.blend_func # func
                   THEN Set(Emit(x, "BlendFuncSeparate", func),
                            [x.state EXCEPT !.blend_func = func])
                   ELSE x
        \* Update blend color.
        Color(x) == IF x.state.blend_color # blend.constant_value
                    THEN Set(Emit(x, "BlendColor", blend.constant_value),
                             [x.state EXCEPT !.blend_color = blend.constant_value])
                    ELSE x
    IN  IF blend.color.f = "AlwaysReplace" /\ blend.alpha.f = "AlwaysReplace"
        THEN \* Both color and alpha always replace. This equals no blending.
             IF c.state.enabled_blend
             THEN Set(Emit(c, "Disable", "BLEND"), [c.state EXCEPT !.enabled_blend = FALSE])
             ELSE c
        ELSE IF color_eq = "Err" \/ alpha_eq = "Err"
             THEN Fail(Enable(c), "BlendingParameterNotSupported")
             ELSE Color(Func(Equation(Enable(c))))

(***************************************************************************)
(* sync_color_mask .. sync_vertices_per_patch (draw.rs:672-883)            *)
(***************************************************************************)
BoolToGl(b) == IF b THEN 1 ELSE 0

sync_color_mask(c, mask) ==
    LET m == <<BoolToGl(mask[1]), BoolToGl(mask[2]), BoolToGl(mask[3]), BoolToGl(mask[4])>>
    IN  IF c.state.color_mask # m
        THEN Set(Emit(c, "ColorMask", m), [c.state EXCEPT !.color_mask = m])
        ELSE c

sync_line_width(c, line_width) ==
    IF line_width # <<>> /\ c.state.line_width # line_width[1]
    THEN Set(Emit(c, "LineWidth", line_width[1]),
             [c.state EXCEPT !.line_width = line_width[1]])
    ELSE c

\* mutation: the new point size is stored in the cached line width
sync_point_size_crossed(c, point_size) ==
    IF point_size # <<>> /\ c.state.point_size # point_size[1]
    THEN Set(Emit(c, "PointSize", point_size[1]),
             [c.state EXCEPT !.line_width = point_size[1]])
    ELSE c

sync_point_size(c, point_size) ==
    IF point_size # <<>> /\ c.state.point_size # point_size[1]
    THEN Set(Emit(c, "PointSize", point_size[1]),
             [c.state EXCEPT !.point_size = point_size[1]])
    ELSE c

\* the Enable(CULL_FACE) + CullFace(face) pair of the two culling arms
sync_cull_face(c, face) ==
    LET Enable(x) == IF ~x.state.enabled_cull_face
                     THEN Set(Emit(x, "Enable", "CULL_FACE"),
                              [x.state EXCEPT !.enabled_cull_face = TRUE])
                     ELSE x
        Face(x) == IF x.state.cull_face # face
                   THEN Set(Emit(x, "CullFace", face), [x.state EXCEPT !.cull_face = face])
                   ELSE x
    IN  Face(Enable(c))

sync_polygon_mode(c, backface_culling, polygon_mode) ==
    LET mode == PolygonModeToGlenum(polygon_mode)
        Culling(x) ==
            CASE backface_culling = "CullingDisabled" ->
                    IF x.state.enabled_cull_face
                    THEN Set(Emit(x, "Disable", "CULL_FACE"),
                             [x.state EXCEPT !.enabled_cull_face = FALSE])
                    ELSE x
              [] backface_culling = "CullCounterClockWise" -> sync_cull_face(x, "FRONT")
              [] backface_culling = "CullClockWise" -> sync_cull_face(x, "BACK")
        Mode(x) == IF x.state.polygon_mode # mode
                   THEN Set(Emit(x, "PolygonMode", <<"FRONT_AND_BACK", mode>>),
                            [x.state EXCEPT !.polygon_mode = mode])
                   ELSE x
    IN  Mode(Culling(c))

\* mutation: the command is emitted but the cached flag is not updated
sync_multisampling_stale(c, multisampling) ==
    IF c.state.enabled_multisample # multisampling
    THEN Emit(c, IF multisampling THEN "Enable" ELSE "Disable", "MULTISAMPLE")
    ELSE c

\* mutation: the flag is compared with the device's instead of the cached one
sync_multisampling_from_device(c, multisampling) ==
    IF c.dev.enabled_multisample # multisampling
    THEN Set(Emit(c, IF multisampling THEN "Enable" ELSE "Disable", "MULTISAMPLE"),
             [c.state EXCEPT !.enabled_multisample = multisampling])
    ELSE c

sync_multisampling(c, multisampling) ==
    IF c.state.enabled_multisample # multisampling
    THEN Set(Emit(c, IF multisampling THEN "Enable" ELSE "Disable", "MULTISAMPLE"),
             [c.state EXCEPT !.enabled_multisample = multisampling])
    ELSE c

\* mutation: the command is emitted without looking at the cached flag
sync_dithering_uncached(c, dithering) ==
    Set(Emit(c, IF dithering THEN "Enable" ELSE "Disable", "DITHER"),
        [c.state EXCEPT !.enabled_dither = dithering])

\* mutation: dithering is synchronised only while the cache has multisampling
\* disabled
sync_dithering_coupled(c, dithering) ==
    IF ~c.state.enabled_multisample /\ c.state.enabled_dither # dithering
    THEN Set(Emit(c, IF dithering THEN "Enable" ELSE "Disable", "DITHER"),
             [c.state EXCEPT !.enabled_dither = dithering])
    ELSE c

sync_dithering(c, dithering) ==
    IF c.state.enabled_dither # dithering
    THEN Set(Emit(c, IF dithering THEN "Enable" ELSE "Disable", "DITHER"),
             [c.state EXCEPT !.enabled_dither = dithering])
    ELSE c

\* a Rect is [left, bottom, width, height]
RectToGl(r) == <<r.left, r.bottom, r.width, r.height>>

\* mutation: the dimensions are checked after the viewport is set
sync_viewport_checked_late(c, viewport, surface_dimensions) ==
    LET w == IF viewport # <<>> THEN viewport[1].width ELSE surface_dimensions[1]
        h == IF viewport # <<>> THEN viewport[1].height ELSE surface_dimensions[2]
        v == IF viewport # <<>> THEN RectToGl(viewport[1]) ELSE <<0, 0, w, h>>
        x == IF c.state.viewport # <<v>>
             THEN Set(Emit(c, "Viewport", <<v>>), [c.state EXCEPT !.viewport = <<v>>])
             ELSE c
    IN  IF w > c.caps.max_viewport_dims[1] \/ h > c.caps.max_viewport_dims[2]
        THEN Fail(x, "panic")
        ELSE x

\* "viewport": the assert!s abort the call with a panic
sync_viewport(c, viewport, surface_dimensions) ==
    LET w == IF viewport # <<>> THEN viewport[1].width ELSE surface_dimensions[1]
        h == IF viewport # <<>> THEN viewport[1].height ELSE surface_dimensions[2]
        v == IF viewport # <<>> THEN RectToGl(viewport[1]) ELSE <<0, 0, w, h>>
    IN  IF w > c.caps.max_viewport_dims[1] \/ h > c.caps.max_viewport_dims[2]
        THEN Fail(c, "panic")
        ELSE IF c.state.viewport # <<v>>
        THEN Set(Emit(c, "Viewport", <<v>>), [c.state EXCEPT !.viewport = <<v>>])
        ELSE c

\* "scissor"
sync_scissor(c, scissor) ==
    LET s == RectToGl(scissor[1])
        Box(x) == IF x.state.scissor # <<s>>
                  THEN Set(Emit(x, "Scissor", <<s>>), [x.state EXCEPT !.scissor = <<s>>])
                  ELSE x
        Enable(x) == IF ~x.state.enabled_scissor_test
                     THEN Set(Emit(x, "Enable", "SCISSOR_TEST"),
                              [x.state EXCEPT !.enabled_scissor_test = TRUE])
                     ELSE x
    IN  IF scissor # <<>>
        THEN Enable(Box(c))
        ELSE IF c.state.enabled_scissor_test
             THEN Set(Emit(c, "Disable", "SCISSOR_TEST"),
                      [c.state EXCEPT !.enabled_scissor_test = FALSE])
             ELSE c

sync_viewport_scissor(c, viewport, scissor, surface_dimensions) ==
    LET Scissor(x) == IF Failed(x) THEN x ELSE sync_scissor(x, scissor)
    IN  Scissor(sync_viewport(c, viewport, surface_dimensions))

sync_rasterizer_discard(c, draw_primitives) ==
    IF c.state.enabled_rasterizer_discard = draw_primitives
    THEN IF VersionGE(c.caps.version, "Gl", 3, 0)
         THEN Set(Emit(c, IF draw_primitives THEN "Disable" ELSE "Enable",
                       "RASTERIZER_DISCARD"),
                  [c.state EXCEPT !.enabled_rasterizer_discard = ~draw_primitives])
         ELSE IF Ext(c, "gl_ext_transform_feedback")
         THEN Set(Emit(c, IF draw_primitives THEN "Disable" ELSE "Enable",
                       "RASTERIZER_DISCARD_EXT"),
                  [c.state EXCEPT !.enabled_rasterizer_discard = ~draw_primitives])
         ELSE Fail(c, "RasterizerDiscardNotSupported")
    ELSE c

sync_vertices_per_patch(c, vertices_per_patch) ==
    IF vertices_per_patch # <<>> /\ c.state.patch_patch_vertices # vertices_per_patch[1]
    THEN Set(Emit(c, "PatchParameteri", <<"PATCH_VERTICES", vertices_per_patch[1]>>),
             [c.state EXCEPT !.patch_patch_vertices = vertices_per_patch[1]])
    ELSE c

(***************************************************************************)
(* sync_smooth, sync_provoking_vertex, sync_primitive_bounding_box         *)
(* (draw.rs:940-1071)                                                      *)
(***************************************************************************)
LinePrimitives == {"LinesList", "LinesListAdjacency", "LineStrip",
                   "LineStripAdjacency", "LineLoop"}

\* mutation: the hint is written whether or not the cache holds it
sync_smooth_always_hint(c, smooth, primitive_type) ==
    LET hint == SmoothToGlenum(smooth[1])
        EnableLine(x) ==
            IF ~x.state.enabled_line_smooth
            THEN Emit(Set(x, [x.state EXCEPT !.enabled_line_smooth = TRUE]),
                      "Enable", "LINE_SMOOTH")
            ELSE x
        HintLine(x) ==
            Emit(Set(x, [x.state EXCEPT !.smooth[1] = hint]),
                 "Hint", <<"LINE_SMOOTH_HINT", hint>>)
        EnablePolygon(x) ==
            IF ~x.state.enabled_polygon_smooth
            THEN Emit(Set(x, [x.state EXCEPT !.enabled_polygon_smooth = TRUE]),
                      "Enable", "POLYGON_SMOOTH")
            ELSE x
        HintPolygon(x) ==
            Emit(Set(x, [x.state EXCEPT !.smooth[2] = hint]),
                 "Hint", <<"POLYGON_SMOOTH_HINT", hint>>)
    IN  IF smooth # <<>>
        THEN IF ~VersionGE(c.caps.version, "Gl", 1, 0)
             THEN Fail(c, "SmoothingNotSupported")
             ELSE IF primitive_type.type = "Points"
             THEN Fail(c, "SmoothingNotSupported")
             ELSE IF primitive_type.type \in LinePrimitives
             THEN HintLine(EnableLine(c))
             ELSE HintPolygon(EnablePolygon(c))
        ELSE IF primitive_type.type = "Points" THEN c
             ELSE IF primitive_type.type \in LinePrimitives
             THEN IF c.state.enabled_line_smooth
                  THEN Emit(Set(c, [c.state EXCEPT !.enabled_line_smooth = FALSE]),
                            "Disable", "LINE_SMOOTH")
                  ELSE c
             ELSE IF c.state.enabled_polygon_smooth
                  THEN Emit(Set(c, [c.state EXCEPT !.enabled_polygon_smooth = FALSE]),
                            "Disable", "POLYGON_SMOOTH")
                  ELSE c

\* mutation: a request for no smoothing disables both classes, whatever the
\* primitive
sync_smooth_none_disables_all(c, smooth, primitive_type) ==
    LET hint == SmoothToGlenum(smooth[1])
        EnableLine(x) ==
            IF ~x.state.enabled_line_smooth
            THEN Emit(Set(x, [x.state EXCEPT !.enabled_line_smooth = TRUE]),
                      "Enable", "LINE_SMOOTH")
            ELSE x
        HintLine(x) ==
            IF x.state.smooth[1] # hint
            THEN Emit(Set(x, [x.state EXCEPT !.smooth[1] = hint]),
                      "Hint", <<"LINE_SMOOTH_HINT", hint>>)
            ELSE x
        EnablePolygon(x) ==
            IF ~x.state.enabled_polygon_smooth
            THEN Emit(Set(x, [x.state EXCEPT !.enabled_polygon_smooth = TRUE]),
                      "Enable", "POLYGON_SMOOTH")
            ELSE x
        HintPolygon(x) ==
            IF x.state.smooth[2] # hint
            THEN Emit(Set(x, [x.state EXCEPT !.smooth[2] = hint]),
                      "Hint", <<"POLYGON_SMOOTH_HINT", hint>>)
            ELSE x
        DisableLine(x) ==
            IF x.state.enabled_line_smooth
            THEN Emit(Set(x, [x.state EXCEPT !.enabled_line_smooth = FALSE]),
                      "Disable", "LINE_SMOOTH")
            ELSE x
        DisablePolygon(x) ==
            IF x.state.enabled_polygon_smooth
            THEN Emit(Set(x, [x.state EXCEPT !.enabled_polygon_smooth = FALSE]),
                      "Disable", "POLYGON_SMOOTH")
            ELSE x
    IN  IF smooth # <<>>
        THEN IF ~VersionGE(c.caps.version, "Gl", 1, 0)
             THEN Fail(c, "SmoothingNotSupported")
             ELSE IF primitive_type.type = "Points"
             THEN Fail(c, "SmoothingNotSupported")
             ELSE IF primitive_type.type \in LinePrimitives
             THEN HintLine(EnableLine(c))
             ELSE HintPolygon(EnablePolygon(c))
        ELSE DisablePolygon(DisableLine(c))

\* a primitive type is [type, vertices_per_patch]
sync_smooth(c, smooth, primitive_type) ==
    LET hint == SmoothToGlenum(smooth[1])
        EnableLine(x) ==
            IF ~x.state.enabled_line_smooth
            THEN Emit(Set(x, [x.state EXCEPT !.enabled_line_smooth = TRUE]),
                      "Enable", "LINE_SMOOTH")
            ELSE x
        HintLine(x) ==
            IF x.state.smooth[1] # hint
            THEN Emit(Set(x, [x.state EXCEPT !.smooth[1] = hint]),
                      "Hint", <<"LINE_SMOOTH_HINT", hint>>)
            ELSE x
        EnablePolygon(x) ==
            IF ~x.state.enabled_polygon_smooth
            THEN Emit(Set(x, [x.state EXCEPT !.enabled_polygon_smooth = TRUE]),
                      "Enable", "POLYGON_SMOOTH")
            ELSE x
        HintPolygon(x) ==
            IF x.state.smooth[2] # hint
            THEN Emit(Set(x, [x.state EXCEPT !.smooth[2] = hint]),
                      "Hint", <<"POLYGON_SMOOTH_HINT", hint>>)
            ELSE x
    IN  IF smooth # <<>>
        THEN IF ~VersionGE(c.caps.version, "Gl", 1, 0)
             THEN Fail(c, "SmoothingNotSupported")
             ELSE IF primitive_type.type = "Points"
             THEN Fail(c, "SmoothingNotSupported")
             ELSE IF primitive_type.type \in LinePrimitives
             THEN HintLine(EnableLine(c))
             ELSE HintPolygon(EnablePolygon(c))
        ELSE IF primitive_type.type = "Points" THEN c
             ELSE IF primitive_type.type \in LinePrimitives
             THEN IF c.state.enabled_line_smooth
                  THEN Emit(Set(c, [c.state EXCEPT !.enabled_line_smooth = FALSE]),
                            "Disable", "LINE_SMOOTH")
                  ELSE c
             ELSE IF c.state.enabled_polygon_smooth
                  THEN Emit(Set(c, [c.state EXCEPT !.enabled_polygon_smooth = FALSE]),
                            "Disable", "POLYGON_SMOOTH")
                  ELSE c

\* mutation: the cached convention is not looked at
sync_provoking_vertex_uncached(c, value) ==
    LET v == CASE value = "LastVertex" -> "LAST_VERTEX_CONVENTION"
               [] value = "FirstVertex" -> "FIRST_VERTEX_CONVENTION"
    IN  IF VersionGE(c.caps.version, "Gl", 3, 2) \/ Ext(c, "gl_arb_provoking_vertex")
        THEN Set(Emit(c, "ProvokingVertex", v), [c.state EXCEPT !.provoking_vertex = v])
        ELSE IF Ext(c, "gl_ext_provoking_vertex")
        THEN Set(Emit(c, "ProvokingVertexEXT", v), [c.state EXCEPT !.provoking_vertex = v])
        ELSE Fail(c, "ProvokingVertexNotSupported")

sync_provoking_vertex(c, value) ==
    LET v == CASE value = "LastVertex" -> "LAST_VERTEX_CONVENTION"
               [] value = "FirstVertex" -> "FIRST_VERTEX_CONVENTION"
    IN  IF c.state.provoking_vertex = v THEN c
        ELSE IF VersionGE(c.caps.version, "Gl", 3, 2) \/ Ext(c, "gl_arb_provoking_vertex")
        THEN Set(Emit(c, "ProvokingVertex", v), [c.state EXCEPT !.provoking_vertex = v])
        ELSE IF Ext(c, "gl_ext_provoking_vertex")
        THEN Set(Emit(c, "ProvokingVertexEXT", v), [c.state EXCEPT !.provoking_vertex = v])
        ELSE Fail(c, "ProvokingVertexNotSupported")

\* mutation: the paths are tried from the last to the first
sync_primitive_bounding_box_reversed(c, bb) ==
    IF c.state.primitive_bounding_box = bb THEN c
    ELSE IF Ext(c, "gl_ext_primitive_bounding_box")
    THEN Set(Emit(c, "PrimitiveBoundingBoxEXT", bb),
             [c.state EXCEPT !.primitive_bounding_box = bb])
    ELSE IF Ext(c, "gl_oes_primitive_bounding_box")
    THEN Set(Emit(c, "PrimitiveBoundingBoxOES", bb),
             [c.state EXCEPT !.primitive_bounding_box = bb])
    ELSE IF Ext(c, "gl_arb_es3_2_compatibility")
    THEN Set(Emit(c, "PrimitiveBoundingBoxARB", bb),
             [c.state EXCEPT !.primitive_bounding_box = bb])
    ELSE IF VersionGE(c.caps.version, "GlEs", 3, 2)
    THEN Set(Emit(c, "PrimitiveBoundingBox", bb),
             [c.state EXCEPT !.primitive_bounding_box = bb])
    ELSE c

sync_primitive_bounding_box(c, bb) ==
    IF c.state.primitive_bounding_box = bb THEN c
    ELSE IF VersionGE(c.caps.version, "GlEs", 3, 2)
    THEN Set(Emit(c, "PrimitiveBoundingBox", bb),
             [c.state EXCEPT !.primitive_bounding_box = bb])
    ELSE IF Ext(c, "gl_arb_es3_2_compatibility")
    THEN Set(Emit(c, "PrimitiveBoundingBoxARB", bb),
             [c.state EXCEPT !.primitive_bounding_box = bb])
    ELSE IF Ext(c, "gl_oes_primitive_bounding_box")
    THEN Set(Emit(c, "PrimitiveBoundingBoxOES", bb),
             [c.state EXCEPT !.primitive_bounding_box = bb])
    ELSE IF Ext(c, "gl_ext_primitive_bounding_box")
    THEN Set(Emit(c, "PrimitiveBoundingBoxEXT", bb),
             [c.state EXCEPT !.primitive_bounding_box = bb])
    ELSE c

(***************************************************************************)
(* Query objects.  A query object is (category, id); queries[cat][id] is   *)
(* its lifecycle state: "Fresh", "Active" or "Finished".                   *)
(***************************************************************************)
\* the application owns two query objects of each category
QueryIds == {1, 2}

\* end the query currently active in a category, if any: it is Finished
end_query(c, cat) ==
    LET cur == c.state.query[cat]
    IN  IF cur = NoQuery THEN c
        ELSE [Emit(c, "EndQuery", <<cat, cur>>)
                EXCEPT !.state.query[cat] = NoQuery,
                       !.queries[cat][cur] = "Finished"]

\* begin a query: nothing to do when it is the active one; a query that has
\* been used and is no longer active cannot be begun again
begin_query(c, cat, q) ==
    IF c.state.query[cat] = q THEN c
    ELSE IF c.queries[cat][q] # "Fresh" THEN Fail(c, "WrongQueryOperation")
    ELSE LET c1 == end_query(c, cat)
         IN  [Emit(c1, "BeginQuery", <<cat, q>>)
                EXCEPT !.state.query[cat] = q,
                       !.queries[cat][q] = "Active"]

\* mutation: a request of no query leaves the active query running
sync_query_no_end(c, cat, query) ==
    IF query # <<>> THEN begin_query(c, cat, query[1]) ELSE c

\* one category of sync_queries: Some(q) begins q, None ends the active one
sync_query(c, cat, query) ==
    IF query # <<>> THEN begin_query(c, cat, query[1]) ELSE end_query(c, cat)

\* mutation: the error of begin_query is dropped instead of returned
sync_queries_untried(c, samples_passed_query, time_elapsed_query, primitives_generated_query, transform_feedback_primitives_written_query) ==
    LET TimeElapsed(x) ==
            IF Failed(x) THEN x ELSE sync_query(x, "time_elapsed", time_elapsed_query)
        PrimitivesGenerated(x) ==
            IF Failed(x) THEN x
            ELSE sync_query(x, "primitives_generated", primitives_generated_query)
        TransformFeedback(x) ==
            IF Failed(x) THEN x
            ELSE sync_query(x, "transform_feedback_primitives_written",
                            transform_feedback_primitives_written_query)
        Dropped(x) == [x EXCEPT !.err = "none"]
    IN  Dropped(TransformFeedback(Dropped(PrimitivesGenerated(Dropped(TimeElapsed(
            Dropped(sync_query(c, "samples_passed", samples_passed_query))))))))

\* mutation: nothing is synchronised when the draw binds no query at all
sync_queries_skip_none(c, samples_passed_query, time_elapsed_query, primitives_generated_query, transform_feedback_primitives_written_query) ==
    LET TimeElapsed(x) ==
            IF Failed(x) THEN x ELSE sync_query(x, "time_elapsed", time_elapsed_query)
        PrimitivesGenerated(x) ==
            IF Failed(x) THEN x
            ELSE sync_query(x, "primitives_generated", primitives_generated_query)
        TransformFeedback(x) ==
            IF Failed(x) THEN x
            ELSE sync_query(x, "transform_feedback_primitives_written",
                            transform_feedback_primitives_written_query)
    IN  IF /\ samples_passed_query = <<>> /\ time_elapsed_query = <<>>
           /\ primitives_generated_query = <<>>
           /\ transform_feedback_primitives_written_query = <<>>
        THEN c
        ELSE TransformFeedback(PrimitivesGenerated(TimeElapsed(
                 sync_query(c, "samples_passed", samples_passed_query))))

\* draw.rs:885-920; each begin_query is under try!
sync_queries(c, samples_passed_query, time_elapsed_query, primitives_generated_query, transform_feedback_primitives_written_query) ==
    LET TimeElapsed(x) ==
            IF Failed(x) THEN x ELSE sync_query(x, "time_elapsed", time_elapsed_query)
        PrimitivesGenerated(x) ==
            IF Failed(x) THEN x
            ELSE sync_query(x, "primitives_generated", primitives_generated_query)
        TransformFeedback(x) ==
            IF Failed(x) THEN x
            ELSE sync_query(x, "transform_feedback_primitives_written",
                            transform_feedback_primitives_written_query)
    IN  TransformFeedback(PrimitivesGenerated(TimeElapsed(
            sync_query(c, "samples_passed", samples_passed_query))))

\* a condition is [query, wait, per_region]
begin_conditional_render(c, query, wait, per_region) ==
    LET new == <<query, wait, per_region>>
    IN  IF c.state.conditional_render = new THEN c
        ELSE LET c1 == IF c.state.conditional_render # <<>>
                       THEN Emit(c, "EndConditionalRender", <<>>)
                       ELSE c
             IN  Set(Emit(c1, "BeginConditionalRender", new),
                     [c1.state EXCEPT !.conditional_render = new])

end_conditional_render(c) ==
    IF c.state.conditional_render # <<>>
    THEN Set(Emit(c, "EndConditionalRender", <<>>),
             [c.state EXCEPT !.conditional_render = <<>>])
    ELSE c

\* draw.rs:922-938
sync_conditional_render(c, condition) ==
    IF condition # <<>>
    THEN begin_conditional_render(c, condition[1].query, condition[1].wait,
                                  condition[1].per_region)
    ELSE end_conditional_render(c)

(***************************************************************************)
(* validate (draw_parameters/mod.rs:979-994)                               *)
(***************************************************************************)
\* mutation: the rasterizer-discard rule is checked before the depth range
validate_discard_first(context, params) ==
    IF /\ ~params.draw_primitives
       /\ VersionLT(context.version, "Gl", 3, 0)
       /\ "gl_ext_transform_feedback" \notin context.extensions
    THEN "RasterizerDiscardNotSupported"
    ELSE IF \/ params.depth_range[1] < 0 \/ params.depth_range[1] > 2
            \/ params.depth_range[2] < 0 \/ params.depth_range[2] > 2
    THEN "InvalidDepthRange"
    ELSE "Ok"

validate(context, params) ==
    IF \/ params.depth_range[1] < 0 \/ params.depth_range[1] > 2
       \/ params.depth_range[2] < 0 \/ params.depth_range[2] > 2
    THEN "InvalidDepthRange"
    ELSE IF /\ ~params.draw_primitives
            /\ VersionLT(context.version, "Gl", 3, 0)
            /\ "gl_ext_transform_feedback" \notin context.extensions
    THEN "RasterizerDiscardNotSupported"
    ELSE "Ok"

(***************************************************************************)
(* draw (draw.rs:38-367)                                                   *)
(***************************************************************************)
\* mutation: the patch size is not compared with max_patch_vertices
tessellation_no_upper_bound(context, primitives) ==
    IF primitives.type = "Patches"
    THEN IF context.max_patch_vertices # 0
         THEN IF primitives.vertices_per_patch = 0
              THEN [err |-> "UnsupportedVerticesPerPatch", v |-> <<>>]
              ELSE [err |-> "none", v |-> <<primitives.vertices_per_patch>>]
         ELSE [err |-> "TessellationNotSupported", v |-> <<>>]
    ELSE [err |-> "none", v |-> <<>>]

\* "handling tessellation": Ok(vertices_per_patch) or the error
tessellation(context, primitives) ==
    IF primitives.type = "Patches"
    THEN IF context.max_patch_vertices # 0
         THEN IF primitives.vertices_per_patch = 0
                 \/ primitives.vertices_per_patch > context.max_patch_vertices
              THEN [err |-> "UnsupportedVerticesPerPatch", v |-> <<>>]
              ELSE [err |-> "none", v |-> <<primitives.vertices_per_patch>>]
         ELSE [err |-> "TessellationNotSupported", v |-> <<>>]
    ELSE [err |-> "none", v |-> <<>>]

\* mutation: the binder may use a base vertex whatever the index source
use_base_vertex_always(c, indices) == TRUE

\* determining whether we can use the `base_vertex` variants for drawing
use_base_vertex(c, indices) ==
    CASE indices.kind = "MultidrawArray" -> FALSE
      [] indices.kind = "MultidrawElement" -> FALSE
      [] indices.kind = "NoIndices" -> TRUE
      [] OTHER -> \/ VersionGE(c.caps.version, "Gl", 3, 2)
                  \/ VersionGE(c.caps.version, "GlEs", 3, 2)
                  \/ Ext(c, "gl_arb_draw_elements_base_vertex")
                  \/ Ext(c, "gl_oes_draw_elements_base_vertex")

\* the loop over the vertex sources, from source i on.  acc is
\* [vertices_count, instances_count, fences, bound, err]; a count is <<>>
\* for None.  A vertex source is [kind, id, len, per_instance].
RECURSIVE scan_sources(_, _, _)
scan_sources(vertex_buffers, i, acc) ==
    IF i > Len(vertex_buffers) THEN acc
    ELSE LET src == vertex_buffers[i]
             \* first match: fence and bind a buffer
             a1 == IF src.kind = "VertexBuffer"
                   THEN [acc EXCEPT !.fences = Append(@, src.id),
                                    !.bound = Append(@, src.id)]
                   ELSE acc
         IN  IF ~src.per_instance
             THEN IF a1.vertices_count # <<>>
                  THEN IF a1.vertices_count[1] # src.len
                       THEN [a1 EXCEPT !.vertices_count = <<>>]    \* break
                       ELSE scan_sources(vertex_buffers, i + 1, a1)
                  ELSE scan_sources(vertex_buffers, i + 1,
                                    [a1 EXCEPT !.vertices_count = <<src.len>>])
             ELSE IF a1.instances_count # <<>>
                  THEN IF a1.instances_count[1] # src.len
                       THEN [a1 EXCEPT !.err = "InstancesCountMismatch"]
                       ELSE scan_sources(vertex_buffers, i + 1, a1)
                  ELSE scan_sources(vertex_buffers, i + 1,
                                    [a1 EXCEPT !.instances_count = <<src.len>>])

\* mutation: GLES 3.2 is not counted among the profiles with the core forms
HasBaseVertexCore_desktop_only(c) ==
    \/ VersionGE(c.caps.version, "Gl", 3, 2)
    \/ Ext(c, "gl_arb_draw_elements_base_vertex")

\* the base-vertex forms of the indexed draw commands
HasBaseVertexCore(c) ==
    \/ VersionGE(c.caps.version, "Gl", 3, 2)
    \/ VersionGE(c.caps.version, "GlEs", 3, 2)
    \/ Ext(c, "gl_arb_draw_elements_base_vertex")

AddFence(c, id) == [c EXCEPT !.fences = Append(@, id)]

\* mutation: the instanced arm falls through to the non-instanced command
submit_no_indices_both(c, vertices_count, instances_count, base_vertex) ==
    IF vertices_count = <<>>
    THEN Fail(c, "VerticesSourcesLengthMismatch")
    ELSE Emit(IF instances_count # <<>>
              THEN Emit(c, "DrawArraysInstanced",
                        <<base_vertex, vertices_count[1], instances_count[1]>>)
              ELSE c,
              "DrawArrays", <<base_vertex, vertices_count[1]>>)

\* the IndicesSource::NoIndices arm of the submission
\* mutation: an unresolved vertex count is drawn as a count of zero
submit_no_indices_unchecked(c, vertices_count, instances_count, base_vertex) ==
    IF vertices_count = <<>>
    THEN Emit(c, "DrawArrays", <<base_vertex, 0>>)
    ELSE IF instances_count # <<>>
    THEN Emit(c, "DrawArraysInstanced",
              <<base_vertex, vertices_count[1], instances_count[1]>>)
    ELSE Emit(c, "DrawArrays", <<base_vertex, vertices_count[1]>>)

\* mutation: the two counts change places in the instanced command
submit_no_indices_swapped(c, vertices_count, instances_count, base_vertex) ==
    IF vertices_count = <<>>
    THEN Fail(c, "VerticesSourcesLengthMismatch")
    ELSE IF instances_count # <<>>
    THEN Emit(c, "DrawArraysInstanced",
              <<base_vertex, instances_count[1], vertices_count[1]>>)
    ELSE Emit(c, "DrawArrays", <<base_vertex, vertices_count[1]>>)

submit_no_indices(c, vertices_count, instances_count, base_vertex) ==
    IF vertices_count = <<>>
    THEN Fail(c, "VerticesSourcesLengthMismatch")
    ELSE IF instances_count # <<>>
    THEN Emit(c, "DrawArraysInstanced",
              <<base_vertex, vertices_count[1], instances_count[1]>>)
    ELSE Emit(c, "DrawArrays", <<base_vertex, vertices_count[1]>>)

\* "drawing": the submission of the draw command
submit(c, indices, vertices_count, instances_count, base_vertex) ==
    CASE indices.kind = "IndexBuffer" ->
            LET c1 == AddFence(c, indices.buffer.id)
                n == indices.buffer.len
            IN  IF instances_count # <<>>
                THEN IF base_vertex # 0
                     THEN IF HasBaseVertexCore(c)
                          THEN Emit(c1, "DrawElementsInstancedBaseVertex",
                                    <<n, instances_count[1], base_vertex>>)
                          ELSE IF Ext(c, "gl_oes_draw_elements_base_vertex")
                          THEN Emit(c1, "DrawElementsInstancedBaseVertexOES",
                                    <<n, instances_count[1], base_vertex>>)
                          ELSE Fail(c1, "panic")
                     ELSE Emit(c1, "DrawElementsInstanced", <<n, instances_count[1]>>)
                ELSE IF base_vertex # 0
                     THEN IF HasBaseVertexCore(c)
                          THEN Emit(c1, "DrawElementsBaseVertex", <<n, base_vertex>>)
                          ELSE IF Ext(c, "gl_oes_draw_elements_base_vertex")
                          THEN Emit(c1, "DrawElementsBaseVertexOES", <<n, base_vertex>>)
                          ELSE Fail(c1, "panic")
                     ELSE Emit(c1, "DrawElements", <<n>>)
      [] indices.kind = "MultidrawArray" ->
            IF base_vertex # 0 THEN Fail(c, "panic")
            ELSE Emit(AddFence(c, indices.buffer.id),
                      "MultiDrawArraysIndirect", <<indices.buffer.len>>)
      [] indices.kind = "MultidrawElement" ->
            LET c1 == AddFence(AddFence(c, indices.commands.id), indices.buffer.id)
            IN  IF base_vertex # 0 THEN Fail(c1, "panic")
                ELSE Emit(c1, "MultiDrawElementsIndirect", <<indices.commands.len>>)
      [] indices.kind = "NoIndices" ->
            submit_no_indices(c, vertices_count, instances_count, base_vertex)

\* "fulfilling the fences": fence.insert for each collected fence, in order;
\* each insertion is logged with the draw-call counter it observes
RECURSIVE insert_fences(_, _)
insert_fences(c, i) ==
    IF i > Len(c.fences) THEN c
    ELSE insert_fences(
            [c EXCEPT !.log = Append(@, Cmd("insert_fence",
                                           <<c.fences[i], c.state.next_draw_call_id>>))],
            i + 1)

\* "sync-ing draw_parameters", in source order; every try! stops the chain
sync_draw_parameters(c, p, indices, vertices_per_patch, dimensions) ==
    LET Depth(x) ==
            sync_depth(x, p.depth_test, p.depth_write, p.depth_range, p.depth_clamp)
        StencilBlending(x) ==
            IF Failed(x) THEN x ELSE sync_blending(sync_stencil(x, p), p.blend)
        Rasterizer(x) ==
            IF Failed(x) THEN x
            ELSE sync_viewport_scissor(
                   sync_dithering(
                     sync_multisampling(
                       sync_polygon_mode(
                         sync_point_size(
                           sync_line_width(
                             sync_color_mask(x, p.color_mask),
                             p.line_width),
                           p.point_size),
                         p.backface_culling, p.polygon_mode),
                       p.multisampling),
                     p.dithering),
                   p.viewport, p.scissor, dimensions)
        Discard(x) ==
            IF Failed(x) THEN x ELSE sync_rasterizer_discard(x, p.draw_primitives)
        Queries(x) ==
            IF Failed(x) THEN x
            ELSE sync_queries(sync_vertices_per_patch(x, vertices_per_patch),
                              p.samples_passed_query, p.time_elapsed_query,
                              p.primitives_generated_query,
                              p.transform_feedback_primitives_written_query)
        Smooth(x) ==
            IF Failed(x) THEN x
            ELSE sync_smooth(sync_conditional_render(x, p.condition),
                             p.smooth, indices.primitives)
        ProvokingVertex(x) ==
            IF Failed(x) THEN x ELSE sync_provoking_vertex(x, p.provoking_vertex)
        BoundingBox(x) ==
            IF Failed(x) THEN x
            ELSE sync_primitive_bounding_box(x, p.primitive_bounding_box)
    IN  BoundingBox(ProvokingVertex(Smooth(Queries(Discard(Rasterizer(
            StencilBlending(Depth(c))))))))

\* the sync_* call of draw for one state dimension, on its own
SyncStep(c, d, r) ==
    LET p == r.params
    IN  CASE d = "depth" ->
                sync_depth(c, p.depth_test, p.depth_write, p.depth_range, p.depth_clamp)
          [] d = "stencil" -> sync_stencil(c, p)
          [] d = "blend" -> sync_blending(c, p.blend)
          [] d = "color_mask" -> sync_color_mask(c, p.color_mask)
          [] d = "line_width" -> sync_line_width(c, p.line_width)
          [] d = "point_size" -> sync_point_size(c, p.point_size)
          [] d = "polygon_mode" -> sync_polygon_mode(c, p.backface_culling, p.polygon_mode)
          [] d = "multisampling" -> sync_multisampling(c, p.multisampling)
          [] d = "dithering" -> sync_dithering(c, p.dithering)
          [] d = "viewport_scissor" ->
                sync_viewport_scissor(c, p.viewport, p.scissor, r.dimensions)
          [] d = "rasterizer_discard" -> sync_rasterizer_discard(c, p.draw_primitives)
          [] d = "vertices_per_patch" ->
                sync_vertices_per_patch(c, tessellation(c.caps, r.indices.primitives).v)
          [] d = "queries" ->
                sync_queries(c, p.samples_passed_query, p.time_elapsed_query,
                             p.primitives_generated_query,
                             p.transform_feedback_primitives_written_query)
          [] d = "conditional_render" -> sync_conditional_render(c, p.condition)
          [] d = "smooth" -> sync_smooth(c, p.smooth, r.indices.primitives)
          [] d = "provoking_vertex" -> sync_provoking_vertex(c, p.provoking_vertex)
          [] d = "primitive_bounding_box" ->
                sync_primitive_bounding_box(c, p.primitive_bounding_box)

\* mutation: the fences are fulfilled, then the draw-call counter is advanced
finish_fences_first(c) ==
    [insert_fences(c, 1) EXCEPT !.state.next_draw_call_id = @ + 1]

\* mutation: the draw-call counter is not advanced
finish_no_increment(c) ==
    insert_fences(c, 1)

\* the draw-call counter is advanced, then the fences are fulfilled
finish(c) ==
    insert_fences([c EXCEPT !.state.next_draw_call_id = @ + 1], 1)

\* mutation: the draw command is submitted before the state is synchronised
submit_then_sync(c, r, vertices_per_patch, scan, base_vertex) ==
    LET Sync(x) ==
            IF Failed(x) THEN x
            ELSE sync_draw_parameters(x, r.params, r.indices, vertices_per_patch,
                                      r.dimensions)
    IN  Sync(submit(c, r.indices, scan.vertices_count, scan.instances_count, base_vertex))

\* state synchronisation, then the submission
sync_and_submit(c, r, vertices_per_patch, scan, base_vertex) ==
    LET Submit(x) ==
            IF Failed(x) THEN x
            ELSE submit(x, r.indices, scan.vertices_count, scan.instances_count,
                        base_vertex)
    IN  Submit(sync_draw_parameters(c, r.params, r.indices, vertices_per_patch,
                                    r.dimensions))

\* A request is [params, vertex_buffers, indices, dimensions, base_vertex,
\* uniforms_err]: base_vertex is what the attribute binder reports when it
\* was started with use_base_vertex, uniforms_err the outcome of
\* uniforms.bind_uniforms ("none" or a DrawError).
\* mutation: the state is synchronised and the command submitted before the
\* framebuffer, the program and the uniforms are bound
draw_sync_first(c, r) ==
    LET v == validate(c.caps, r.params)
        t == tessellation(c.caps, r.indices.primitives)
        scan == scan_sources(r.vertex_buffers, 1,
                             [vertices_count |-> <<>>, instances_count |-> <<>>,
                              fences |-> <<>>, bound |-> <<>>, err |-> "none"])
        base_vertex == IF use_base_vertex(c, r.indices) THEN r.base_vertex ELSE 0
        \* binder.bind()
        Bind(x) == [x EXCEPT !.fences = scan.fences,
                             !.log = Append(@, Cmd("bind_vertex_attributes", scan.bound))]
        \* binding the FBO to draw upon, and the program
        Program(x) == [x EXCEPT !.log = @ \o <<Cmd("bind_framebuffer", <<>>),
                                               Cmd("use_program", <<>>)>>]
        \* try!(uniforms.bind_uniforms(...))
        Uniforms(x) == IF r.uniforms_err # "none" THEN Fail(x, r.uniforms_err)
                       ELSE [x EXCEPT !.log = Append(@, Cmd("bind_uniforms", <<>>))]
        SyncAndSubmit(x) ==
            IF Failed(x) THEN x ELSE sync_and_submit(x, r, t.v, scan, base_vertex)
        Finish(x) == IF Failed(x) THEN x ELSE finish(x)
    IN  IF v # "Ok" THEN Fail(c, v)
        ELSE IF t.err # "none" THEN Fail(c, t.err)
        ELSE IF scan.err # "none" THEN Fail([c EXCEPT !.fences = scan.fences], scan.err)
        ELSE Finish(Uniforms(Program(SyncAndSubmit(Bind(c)))))

draw(c, r) ==
    LET v == validate(c.caps, r.params)
        t == tessellation(c.caps, r.indices.primitives)
        scan == scan_sources(r.vertex_buffers, 1,
                             [vertices_count |-> <<>>, instances_count |-> <<>>,
                              fences |-> <<>>, bound |-> <<>>, err |-> "none"])
        base_vertex == IF use_base_vertex(c, r.indices) THEN r.base_vertex ELSE 0
        \* binder.bind()
        Bind(x) == [x EXCEPT !.fences = scan.fences,
                             !.log = Append(@, Cmd("bind_vertex_attributes", scan.bound))]
        \* binding the FBO to draw upon, and the program
        Program(x) == [x EXCEPT !.log = @ \o <<Cmd("bind_framebuffer", <<>>),
                                               Cmd("use_program", <<>>)>>]
        \* try!(uniforms.bind_uniforms(...))
        Uniforms(x) == IF r.uniforms_err # "none" THEN Fail(x, r.uniforms_err)
                       ELSE [x EXCEPT !.log = Append(@, Cmd("bind_uniforms", <<>>))]
        SyncAndSubmit(x) ==
            IF Failed(x) THEN x ELSE sync_and_submit(x, r, t.v, scan, base_vertex)
        Finish(x) == IF Failed(x) THEN x ELSE finish(x)
    IN  IF v # "Ok" THEN Fail(c, v)
        ELSE IF t.err # "none" THEN Fail(c, t.err)
        ELSE IF scan.err # "none" THEN Fail([c EXCEPT !.fences = scan.fences], scan.err)
        ELSE Finish(SyncAndSubmit(Uniforms(Program(Bind(c)))))

(***************************************************************************)
(* Requests                                                                *)
(***************************************************************************)
AlwaysPass == [test |-> "AlwaysPass", mask |-> 0]
AlwaysReplace == [f |-> "AlwaysReplace", source |-> "One", destination |-> "Zero"]
Addition(src, dst) == [f |-> "Addition", source |-> src, destination |-> dst]

\* impl Default for DrawParameters
DefaultParams ==
    [depth_test |-> "Overwrite",
     depth_write |-> FALSE,
     depth_range |-> <<0, 2>>,
     depth_clamp |-> "NoClamp",
     stencil_test_clockwise |-> AlwaysPass,
     stencil_reference_value_clockwise |-> 0,
     stencil_write_mask_clockwise |-> 1,
     stencil_fail_operation_clockwise |-> "Keep",
     stencil_pass_depth_fail_operation_clockwise |-> "Keep",
     stencil_depth_pass_operation_clockwise |-> "Keep",
     stencil_test_counter_clockwise |-> AlwaysPass,
     stencil_reference_value_counter_clockwise |-> 0,
     stencil_write_mask_counter_clockwise |-> 1,
     stencil_fail_operation_counter_clockwise |-> "Keep",
     stencil_pass_depth_fail_operation_counter_clockwise |-> "Keep",
     stencil_depth_pass_operation_counter_clockwise |-> "Keep",
     blend |-> [color |-> AlwaysReplace, alpha |-> AlwaysReplace, constant_value |-> 1],
     color_mask |-> <<TRUE, TRUE, TRUE, TRUE>>,
     line_width |-> <<>>,
     point_size |-> <<>>,
     backface_culling |-> "CullingDisabled",
     polygon_mode |-> "Fill",
     multisampling |-> TRUE,
     dithering |-> TRUE,
     viewport |-> <<>>,
     scissor |-> <<>>,
     draw_primitives |-> TRUE,
     samples_passed_query |-> <<>>,
     time_elapsed_query |-> <<>>,
     primitives_generated_query |-> <<>>,
     transform_feedback_primitives_written_query |-> <<>>,
     condition |-> <<>>,
     smooth |-> <<>>,
     provoking_vertex |-> "LastVertex",
     primitive_bounding_box |-> 0]

Rect(l, b, w, h) == [left |-> l, bottom |-> b, width |-> w, height |-> h]

Prim(t) == [type |-> t, vertices_per_patch |-> 0]
Patches(n) == [type |-> "Patches", vertices_per_patch |-> n]

Buffer(id, len) == [id |-> id, len |-> len]
NoBuffer == Buffer(0, 0)

VertexBuffer(id, len, per_instance) ==
    [kind |-> "VertexBuffer", id |-> id, len |-> len, per_instance |-> per_instance]
Marker(len, per_instance) ==
    [kind |-> "Marker", id |-> 0, len |-> len, per_instance |-> per_instance]

NoIndices(prim) ==
    [kind |-> "NoIndices", primitives |-> prim, buffer |-> NoBuffer, commands |-> NoBuffer]
IndexBuffer(prim, buf) ==
    [kind |-> "IndexBuffer", primitives |-> prim, buffer |-> buf, commands |-> NoBuffer]
MultidrawArray(prim, buf) ==
    [kind |-> "MultidrawArray", primitives |-> prim, buffer |-> buf, commands |-> NoBuffer]
MultidrawElement(prim, cmds, buf) ==
    [kind |-> "MultidrawElement", primitives |-> prim, buffer |-> buf, commands |-> cmds]

Request(params, vertex_buffers, indices) ==
    [params |-> params, vertex_buffers |-> vertex_buffers, indices |-> indices,
     dimensions |-> <<4, 4>>, base_vertex |-> 0, uniforms_err |-> "none"]

\* one vertex buffer of 3 vertices drawn as a triangle list
SimpleRequest(params) ==
    Request(params, <<VertexBuffer(1, 3, FALSE)>>, NoIndices(Prim("TrianglesList")))

\* parameter sets that leave the defaults in one state dimension
DepthVariants ==
    { [DefaultParams EXCEPT !.depth_test = "IfLess", !.depth_write = TRUE],
      [DefaultParams EXCEPT !.depth_test = "IfLess"],
      [DefaultParams EXCEPT !.depth_write = TRUE],
      [DefaultParams EXCEPT !.depth_range = <<1, 2>>],
      [DefaultParams EXCEPT !.depth_range = <<3, 0>>],
      [DefaultParams EXCEPT !.depth_clamp = "Clamp"],
      [DefaultParams EXCEPT !.depth_clamp = "ClampNear"],
      [DefaultParams EXCEPT !.depth_clamp = "ClampFar"] }

StencilVariants ==
    { [DefaultParams EXCEPT !.stencil_test_clockwise = [test |-> "IfLess", mask |-> 1],
                            !.stencil_reference_value_clockwise = 1],
      [DefaultParams EXCEPT !.stencil_test_counter_clockwise =
                                [test |-> "AlwaysFail", mask |-> 0]],
      [DefaultParams EXCEPT !.stencil_depth_pass_operation_counter_clockwise = "Replace"],
      [DefaultParams EXCEPT !.stencil_fail_operation_clockwise = "Invert"],
      [DefaultParams EXCEPT !.stencil_pass_depth_fail_operation_clockwise = "Zero"],
      [DefaultParams EXCEPT !.stencil_depth_pass_operation_clockwise = "Increment"],
      [DefaultParams EXCEPT !.stencil_fail_operation_counter_clockwise = "Decrement"],
      [DefaultParams EXCEPT !.stencil_pass_depth_fail_operation_counter_clockwise = "Invert"],
      [DefaultParams EXCEPT !.stencil_write_mask_clockwise = 0],
      [DefaultParams EXCEPT !.stencil_write_mask_counter_clockwise = 0] }

BlendVariants ==
    { [DefaultParams EXCEPT !.blend = [color |-> Addition("SourceAlpha", "OneMinusSourceAlpha"),
                                       alpha |-> Addition("SourceAlpha", "OneMinusSourceAlpha"),
                                       constant_value |-> 0]],
      [DefaultParams EXCEPT !.blend = [color |-> Addition("One", "One"),
                                       alpha |-> AlwaysReplace,
                                       constant_value |-> 1]],
      [DefaultParams EXCEPT !.blend = [color |-> [AlwaysReplace EXCEPT !.f = "Min"],
                                       alpha |-> AlwaysReplace,
                                       constant_value |-> 1]],
      [DefaultParams EXCEPT !.blend = [color |-> AlwaysReplace,
                                       alpha |-> [AlwaysReplace EXCEPT !.f = "Max"],
                                       constant_value |-> 0]],
      [DefaultParams EXCEPT !.blend = [color |-> AlwaysReplace, alpha |-> AlwaysReplace,
                                       constant_value |-> 0]] }

PolygonVariants ==
    { [DefaultParams EXCEPT !.color_mask = <<TRUE, TRUE, TRUE, FALSE>>],
      [DefaultParams EXCEPT !.line_width = <<1>>],
      [DefaultParams EXCEPT !.line_width = <<2>>],
      [DefaultParams EXCEPT !.point_size = <<2>>],
      [DefaultParams EXCEPT !.backface_culling = "CullClockWise"],
      [DefaultParams EXCEPT !.backface_culling = "CullCounterClockWise"],
      [DefaultParams EXCEPT !.polygon_mode = "Line"] }

RasterVariants ==
    { [DefaultParams EXCEPT !.multisampling = FALSE],
      [DefaultParams EXCEPT !.dithering = FALSE],
      [DefaultParams EXCEPT !.viewport = <<Rect(0, 0, 2, 2)>>],
      [DefaultParams EXCEPT !.viewport = <<Rect(0, 0, 5, 2)>>],
      [DefaultParams EXCEPT !.viewport = <<Rect(0, 0, 2, 5)>>, !.dithering = FALSE,
                            !.depth_test = "IfLess", !.depth_write = TRUE],
      [DefaultParams EXCEPT !.scissor = <<Rect(0, 0, 1, 1)>>],
      [DefaultParams EXCEPT !.scissor = <<Rect(1, 1, 5, 5)>>],
      [DefaultParams EXCEPT !.draw_primitives = FALSE] }

LateVariants ==
    { [DefaultParams EXCEPT !.smooth = <<"Nicest">>],
      [DefaultParams EXCEPT !.smooth = <<"Fastest">>],
      [DefaultParams EXCEPT !.provoking_vertex = "FirstVertex"],
      [DefaultParams EXCEPT !.primitive_bounding_box = 1] }

\* parameter sets that leave the defaults in most dimensions at once: the
\* first is supported everywhere, the second asks for a provoking vertex and
\* the third for smoothing, which fail late in the synchronisation on the
\* profiles that lack them
RetryVariants ==
    LET busy == [DefaultParams EXCEPT
                    !.depth_test = "IfLess", !.depth_write = FALSE,
                    !.depth_range = <<0, 1>>,
                    !.stencil_test_clockwise = [test |-> "IfLess", mask |-> 1],
                    !.stencil_write_mask_counter_clockwise = 0,
                    !.blend = [color |-> Addition("One", "One"), alpha |-> AlwaysReplace,
                               constant_value |-> 1],
                    !.color_mask = <<TRUE, TRUE, TRUE, FALSE>>,
                    !.line_width = <<2>>, !.point_size = <<2>>,
                    !.backface_culling = "CullCounterClockWise", !.polygon_mode = "Line",
                    !.multisampling = FALSE, !.dithering = FALSE,
                    !.viewport = <<Rect(0, 0, 2, 2)>>, !.scissor = <<Rect(0, 0, 1, 1)>>,
                    !.primitive_bounding_box = 1]
    IN  { busy,
          [busy EXCEPT !.provoking_vertex = "FirstVertex"],
          [busy EXCEPT !.smooth = <<"Nicest">>] }

\* The workloads of the state-synchronisation behaviours: an application
\* draws with the default parameters and with the variants of one group of
\* dimensions.  The smoothing workload also varies the primitive class,
\* which sync_smooth and the tessellation check distinguish.
SyncWorkloads ==
    {"depth", "stencil", "blend", "polygon", "raster", "late", "primitives", "retry"}

Workload(w) ==
    CASE w = "depth" -> { SimpleRequest(p) : p \in {DefaultParams} \cup DepthVariants }
      [] w = "stencil" -> { SimpleRequest(p) : p \in {DefaultParams} \cup StencilVariants }
      [] w = "blend" -> { SimpleRequest(p) : p \in {DefaultParams} \cup BlendVariants }
      [] w = "polygon" -> { SimpleRequest(p) : p \in {DefaultParams} \cup PolygonVariants }
      [] w = "raster" ->
            { SimpleRequest(p) : p \in {DefaultParams} \cup RasterVariants }
            \cup { [SimpleRequest([DefaultParams EXCEPT !.multisampling = FALSE])
                       EXCEPT !.dimensions = <<4, 5>>] }
      [] w = "late" -> { SimpleRequest(p) : p \in {DefaultParams} \cup LateVariants }
      [] w = "retry" -> { SimpleRequest(p) : p \in {DefaultParams} \cup RetryVariants }
      [] w = "primitives" ->
            { [SimpleRequest(p) EXCEPT !.indices = NoIndices(prim)] :
                 p \in {DefaultParams, [DefaultParams EXCEPT !.smooth = <<"Nicest">>],
                        [DefaultParams EXCEPT !.smooth = <<"Fastest">>]},
                 prim \in {Prim("TrianglesList"), Prim("LinesList"), Prim("Points")} }
            \cup { [SimpleRequest(DefaultParams) EXCEPT !.indices = NoIndices(Patches(n))] :
                      n \in {0, 2, 5} }

\* vertex source lists: buffers 1 and 2 are per-vertex, 3 and 4 per-instance
SourceLists ==
    { <<>>,
      <<VertexBuffer(1, 3, FALSE)>>,
      <<VertexBuffer(1, 3, FALSE), VertexBuffer(2, 3, FALSE)>>,
      <<VertexBuffer(1, 3, FALSE), VertexBuffer(2, 4, FALSE)>>,
      <<VertexBuffer(1, 3, FALSE), VertexBuffer(2, 4, FALSE), VertexBuffer(5, 3, FALSE)>>,
      <<VertexBuffer(1, 3, FALSE), Marker(4, FALSE), VertexBuffer(3, 2, TRUE)>>,
      <<VertexBuffer(1, 3, FALSE), VertexBuffer(3, 2, TRUE)>>,
      <<VertexBuffer(1, 3, FALSE), VertexBuffer(2, 3, FALSE), VertexBuffer(3, 2, TRUE)>>,
      <<VertexBuffer(3, 2, TRUE), VertexBuffer(4, 3, TRUE)>>,
      <<VertexBuffer(3, 2, TRUE), VertexBuffer(1, 3, FALSE), VertexBuffer(4, 2, TRUE)>>,
      <<VertexBuffer(1, 3, FALSE), VertexBuffer(2, 4, FALSE),
        VertexBuffer(3, 2, TRUE), VertexBuffer(4, 3, TRUE)>>,
      <<Marker(3, FALSE), VertexBuffer(1, 3, FALSE)>>,
      <<Marker(2, TRUE), VertexBuffer(1, 3, FALSE), Marker(3, TRUE)>> }

\* index sources: buffer 6 holds indices, buffer 7 indirect commands
IndexSources ==
    { NoIndices(Prim("TrianglesList")),
      IndexBuffer(Prim("TrianglesList"), Buffer(6, 6)),
      MultidrawArray(Prim("TrianglesList"), Buffer(7, 2)),
      MultidrawElement(Prim("TrianglesList"), Buffer(7, 2), Buffer(6, 6)) }

\* the requests of the behaviours that vary the sources: every source list
\* with every index source, the binder reporting a base vertex of 0 or 1;
\* and requests whose uniforms fail to bind or whose parameters fail to
\* synchronise
SourceRequests ==
    { Request(DefaultParams, vb, idx) : vb \in SourceLists, idx \in IndexSources }
    \cup { [Request(DefaultParams, vb, idx) EXCEPT !.base_vertex = 1] :
             vb \in { <<VertexBuffer(1, 3, FALSE)>>,
                      <<VertexBuffer(1, 3, FALSE), VertexBuffer(3, 2, TRUE)>> },
             idx \in IndexSources }
    \cup { [SimpleRequest(DefaultParams) EXCEPT !.uniforms_err = "UniformTypeMismatch"],
           SimpleRequest([DefaultParams EXCEPT !.provoking_vertex = "FirstVertex"]),
           SimpleRequest([DefaultParams EXCEPT !.depth_range = <<3, 0>>]) }

(***************************************************************************)
(* State dimensions: the part of the parameters, of the cached state and   *)
(* of the command set that each sync_* function handles.                   *)
(***************************************************************************)
Dims == {"depth", "stencil", "blend", "color_mask", "line_width", "point_size",
         "polygon_mode", "multisampling", "dithering", "viewport_scissor",
         "rasterizer_discard", "vertices_per_patch", "queries",
         "conditional_render", "smooth", "provoking_vertex",
         "primitive_bounding_box"}

\* the parameters a dimension reads
ParamDim(p, d) ==
    CASE d = "depth" -> <<p.depth_test, p.depth_write, p.depth_range, p.depth_clamp>>
      [] d = "stencil" ->
            <<p.stencil_test_clockwise, p.stencil_reference_value_clockwise,
              p.stencil_write_mask_clockwise, p.stencil_fail_operation_clockwise,
              p.stencil_pass_depth_fail_operation_clockwise,
              p.stencil_depth_pass_operation_clockwise,
              p.stencil_test_counter_clockwise,
              p.stencil_reference_value_counter_clockwise,
              p.stencil_write_mask_counter_clockwise,
              p.stencil_fail_operation_counter_clockwise,
              p.stencil_pass_depth_fail_operation_counter_clockwise,
              p.stencil_depth_pass_operation_counter_clockwise>>
      [] d = "blend" -> <<p.blend>>
      [] d = "color_mask" -> <<p.color_mask>>
      [] d = "line_width" -> <<p.line_width>>
      [] d = "point_size" -> <<p.point_size>>
      [] d = "polygon_mode" -> <<p.backface_culling, p.polygon_mode>>
      [] d = "multisampling" -> <<p.multisampling>>
      [] d = "dithering" -> <<p.dithering>>
      [] d = "viewport_scissor" -> <<p.viewport, p.scissor>>
      [] d = "rasterizer_discard" -> <<p.draw_primitives>>
      [] d = "vertices_per_patch" -> <<>>
      [] d = "queries" ->
            <<p.samples_passed_query, p.time_elapsed_query,
              p.primitives_generated_query,
              p.transform_feedback_primitives_written_query>>
      [] d = "conditional_render" -> <<p.condition>>
      [] d = "smooth" -> <<p.smooth>>
      [] d = "provoking_vertex" -> <<p.provoking_vertex>>
      [] d = "primitive_bounding_box" -> <<p.primitive_bounding_box>>

\* the cached (or device) values a dimension owns
StateDim(st, d) ==
    CASE d = "depth" ->
            <<st.enabled_depth_clamp_near, st.enabled_depth_clamp_far, st.depth_range,
              st.enabled_depth_test, st.depth_func, st.depth_mask>>
      [] d = "stencil" ->
            <<st.stencil_func_back, st.stencil_func_front, st.stencil_mask_back,
              st.stencil_mask_front, st.stencil_op_back, st.stencil_op_front,
              st.enabled_stencil_test>>
      [] d = "blend" ->
            <<st.enabled_blend, st.blend_equation, st.blend_func, st.blend_color>>
      [] d = "color_mask" -> <<st.color_mask>>
      [] d = "line_width" -> <<st.line_width>>
      [] d = "point_size" -> <<st.point_size>>
      [] d = "polygon_mode" -> <<st.enabled_cull_face, st.cull_face, st.polygon_mode>>
      [] d = "multisampling" -> <<st.enabled_multisample>>
      [] d = "dithering" -> <<st.enabled_dither>>
      [] d = "viewport_scissor" -> <<st.viewport, st.scissor, st.enabled_scissor_test>>
      [] d = "rasterizer_discard" -> <<st.enabled_rasterizer_discard>>
      [] d = "vertices_per_patch" -> <<st.patch_patch_vertices>>
      [] d = "queries" -> <<st.query>>
      [] d = "conditional_render" -> <<st.conditional_render>>
      [] d = "smooth" ->
            <<st.enabled_line_smooth, st.enabled_polygon_smooth, st.smooth>>
      [] d = "provoking_vertex" -> <<st.provoking_vertex>>
      [] d = "primitive_bounding_box" -> <<st.primitive_bounding_box>>

CapDim(cap) ==
    CASE cap \in {"DEPTH_CLAMP", "DEPTH_CLAMP_NEAR_AMD", "DEPTH_CLAMP_FAR_AMD",
                  "DEPTH_TEST"} -> "depth"
      [] cap = "STENCIL_TEST" -> "stencil"
      [] cap = "BLEND" -> "blend"
      [] cap = "CULL_FACE" -> "polygon_mode"
      [] cap = "MULTISAMPLE" -> "multisampling"
      [] cap = "DITHER" -> "dithering"
      [] cap = "SCISSOR_TEST" -> "viewport_scissor"
      [] cap \in {"RASTERIZER_DISCARD", "RASTERIZER_DISCARD_EXT"} -> "rasterizer_discard"
      [] cap \in {"LINE_SMOOTH", "POLYGON_SMOOTH"} -> "smooth"

DrawOps == {"DrawArrays", "DrawArraysInstanced", "DrawElements", "DrawElementsInstanced",
            "DrawElementsBaseVertex", "DrawElementsInstancedBaseVertex",
            "DrawElementsBaseVertexOES", "DrawElementsInstancedBaseVertexOES",
            "MultiDrawArraysIndirect", "MultiDrawElementsIndirect"}

BindOps == {"bind_vertex_attributes", "bind_framebuffer", "use_program", "bind_uniforms"}

\* the dimension a command belongs to; "none" for the commands that are
\* not state synchronisation (binding, submission, fences)
CmdDim(cmd) ==
    CASE cmd.op \in {"Enable", "Disable"} -> CapDim(cmd.a)
      [] cmd.op \in {"DepthRange", "DepthFunc", "DepthMask"} -> "depth"
      [] cmd.op \in {"StencilFuncSeparate", "StencilMaskSeparate",
                     "StencilOpSeparate"} -> "stencil"
      [] cmd.op \in {"BlendEquationSeparate", "BlendFuncSeparate", "BlendColor"} -> "blend"
      [] cmd.op = "ColorMask" -> "color_mask"
      [] cmd.op = "LineWidth" -> "line_width"
      [] cmd.op = "PointSize" -> "point_size"
      [] cmd.op \in {"CullFace", "PolygonMode"} -> "polygon_mode"
      [] cmd.op \in {"Viewport", "Scissor"} -> "viewport_scissor"
      [] cmd.op = "PatchParameteri" -> "vertices_per_patch"
      [] cmd.op \in {"BeginQuery", "EndQuery"} -> "queries"
      [] cmd.op \in {"BeginConditionalRender", "EndConditionalRender"} ->
            "conditional_render"
      [] cmd.op = "Hint" -> "smooth"
      [] cmd.op \in {"ProvokingVertex", "ProvokingVertexEXT"} -> "provoking_vertex"
      [] cmd.op \in {"PrimitiveBoundingBox", "PrimitiveBoundingBoxARB",
                     "PrimitiveBoundingBoxOES", "PrimitiveBoundingBoxEXT"} ->
            "primitive_bounding_box"
      [] OTHER -> "none"

\* the dimensions that have a command in a log
LogDims(l) == {CmdDim(l[i]) : i \in 1 .. Len(l)} \ {"none"}

\* the parts in which two requests differ: state dimensions of the
\* parameters, and the other parts of the request
RequestDiff(r1, r2) ==
    {d \in Dims : ParamDim(r1.params, d) # ParamDim(r2.params, d)}
    \cup (IF r1.vertex_buffers # r2.vertex_buffers THEN {"vertex_buffers"} ELSE {})
    \cup (IF r1.indices # r2.indices THEN {"indices"} ELSE {})
    \cup (IF r1.dimensions # r2.dimensions THEN {"dimensions"} ELSE {})
    \cup (IF <<r1.base_vertex, r1.uniforms_err>> # <<r2.base_vertex, r2.uniforms_err>>
          THEN {"bindings"} ELSE {})

(***************************************************************************)
(* State machine                                                           *)
(***************************************************************************)
\* the query parameter of a category
QueryParam(p, cat) ==
    CASE cat = "samples_passed" -> p.samples_passed_query
      [] cat = "time_elapsed" -> p.time_elapsed_query
      [] cat = "primitives_generated" -> p.primitives_generated_query
      [] OTHER -> p.transform_feedback_primitives_written_query

\* the query a request binds in a category, NoQuery when it binds none
Requested(r, cat) ==
    IF QueryParam(r.params, cat) = <<>> THEN NoQuery ELSE QueryParam(r.params, cat)[1]

\* the query objects a request binds
Bound(r) == {<<cat, Requested(r, cat)>> : cat \in {k \in Categories : Requested(r, k) # NoQuery}}

\* no query object has been used
FreshQueries == [cat \in Categories |-> [q \in QueryIds |-> "Fresh"]]

\* context.make_current(): the command context of one call
Ctxt == [caps |-> caps, state |-> state, dev |-> dev, queries |-> queries,
         log |-> <<>>, fences |-> <<>>, err |-> "none"]

Init ==
    /\ caps \in SyncProfiles
    /\ app \in SyncWorkloads
    /\ state = FreshState
    /\ dev = FreshDevice
    /\ queries = FreshQueries
    /\ log = <<>>
    /\ result = "none"
    /\ req = SimpleRequest(DefaultParams)
    /\ before = FreshState
    /\ prev = [result |-> "none", diff |-> {}, queries |-> FreshQueries]
    /\ usage = [bound |-> {}, dropped |-> {}]
    /\ renderbuffers = [id \in RenderBufferIds |-> "unused"]
    /\ framebuffers = {}

\* what a call of draw with request r that ended in context c leaves behind
Returned(r, c) ==
    /\ state' = c.state
    /\ dev' = c.dev
    /\ queries' = c.queries
    /\ log' = c.log
    /\ result' = (IF c.err = "none" THEN "Ok" ELSE c.err)
    /\ req' = r
    /\ before' = state
    /\ prev' = [result |-> result,
                diff |-> IF Cardinality(RequestDiff(req, r)) <= 1
                         THEN RequestDiff(req, r) ELSE {"many"},
                queries |-> queries]
    /\ usage' = (IF c.err = "none"
                 THEN [bound |-> usage.bound \cup Bound(r),
                       dropped |-> usage.dropped \cup (usage.bound \ Bound(r))]
                 ELSE usage)
    /\ UNCHANGED <<caps, app, renderbuffers, framebuffers>>

\* one call of draw with request r
Draw(r) == Returned(r, draw(Ctxt, r))

DrawSync ==
    /\ state.next_draw_call_id <= MaxDraws
    /\ \E r \in Workload(app) : Draw(r)

Next == DrawSync

Spec == Init /\ [][Next]_vars

(***************************************************************************)
(* Behaviours that vary the vertex and index sources                       *)
(***************************************************************************)
\* GL 4.5, GL 2.1 with and without the ARB base-vertex extension, ES 3.0 with
\* the OES one, and ES 3.2 that still lists the OES one
SourceProfiles ==
    {ProfGl45, ProfGl21, ProfGl21Ext, ProfGles30,
     Profile("GlEs", 3, 2, {"gl_oes_draw_elements_base_vertex"}, 4)}

InitSrc ==
    /\ caps \in SourceProfiles
    /\ app = "sources"
    /\ state = FreshState
    /\ dev = FreshDevice
    /\ queries = FreshQueries
    /\ log = <<>>
    /\ result = "none"
    /\ req = SimpleRequest(DefaultParams)
    /\ before = FreshState
    /\ prev = [result |-> "none", diff |-> {}, queries |-> FreshQueries]
    /\ usage = [bound |-> {}, dropped |-> {}]
    /\ renderbuffers = [id \in RenderBufferIds |-> "unused"]
    /\ framebuffers = {}

DrawSources ==
    /\ state.next_draw_call_id <= MaxSourceDraws
    /\ \E r \in SourceRequests : Draw(r)

NextSrc == DrawSources

SpecSrc == InitSrc /\ [][NextSrc]_vars

(***************************************************************************)
(* Behaviours that bind query objects and read their results back          *)
(***************************************************************************)
QueryProfiles == {ProfGl45, ProfGl21}

OptQuery == {<<>>} \cup {<<q>> : q \in QueryIds}

QueryParams(sp, te, pg, tf) ==
    [DefaultParams EXCEPT !.samples_passed_query = sp,
                          !.time_elapsed_query = te,
                          !.primitives_generated_query = pg,
                          !.transform_feedback_primitives_written_query = tf]

\* parameters binding x in one category and y in the category that
\* sync_queries handles after it (the first one after the last)
CategoryParams(cat, x, y) ==
    CASE cat = "samples_passed" -> QueryParams(x, y, <<>>, <<>>)
      [] cat = "time_elapsed" -> QueryParams(<<>>, x, y, <<>>)
      [] cat = "primitives_generated" -> QueryParams(<<>>, <<>>, x, y)
      [] OTHER -> QueryParams(y, <<>>, <<>>, x)

\* the draws of an application that uses the queries of one category: with
\* or without query 1 of the next category, one that fails validation and
\* one whose provoking vertex is synchronised after the queries
QueryWorkload(cat) ==
    {SimpleRequest(CategoryParams(cat, x, y)) : x \in OptQuery, y \in {<<>>, <<1>>}}
    \cup {SimpleRequest([CategoryParams(cat, <<1>>, <<>>) EXCEPT !.depth_range = <<3, 0>>]),
          SimpleRequest([CategoryParams(cat, <<1>>, <<>>)
                            EXCEPT !.provoking_vertex = "FirstVertex"])}

InitQuery ==
    /\ caps \in QueryProfiles
    /\ app \in Categories
    /\ state = FreshState
    /\ dev = FreshDevice
    /\ queries = FreshQueries
    /\ log = <<>>
    /\ result = "none"
    /\ req = SimpleRequest(DefaultParams)
    /\ before = FreshState
    /\ prev = [result |-> "none", diff |-> {}, queries |-> FreshQueries]
    /\ usage = [bound |-> {}, dropped |-> {}]
    /\ renderbuffers = [id \in RenderBufferIds |-> "unused"]
    /\ framebuffers = {}

DrawQueries ==
    /\ state.next_draw_call_id <= MaxQueryDraws
    /\ \E r \in QueryWorkload(app) : Draw(r)

\* reading the result of a query back (is_ready, get): the query is ended
\* if it is the active one, and cannot be begun afterwards
IsReady(cat, q) ==
    LET c == IF state.query[cat] = q THEN end_query(Ctxt, cat)
             ELSE [Ctxt EXCEPT !.queries[cat][q] = "Finished"]
    IN  /\ queries[cat][q] # "Finished"
        /\ state' = c.state
        /\ dev' = c.dev
        /\ queries' = c.queries
        /\ log' = c.log
        /\ result' = "none"
        /\ before' = state
        /\ prev' = [result |-> result, diff |-> {"many"}, queries |-> queries]
        /\ UNCHANGED <<caps, app, req, usage, renderbuffers, framebuffers>>

\* the application reads back the queries of its category
Readback == \E q \in QueryIds : IsReady(app, q)

NextQuery == DrawQueries \/ Readback

SpecQuery == InitQuery /\ [][NextQuery]_vars

(***************************************************************************)
(* Behaviours that apply validate alone: result is what validate returned  *)
(* for the parameters of req on the profile caps                           *)
(***************************************************************************)
\* depth-range components from -0.5 to 1.5
DepthRangeValues == -1 .. 3

ValidateParams ==
    { [DefaultParams EXCEPT !.depth_range = <<near, far>>, !.draw_primitives = dp] :
        near \in DepthRangeValues, far \in DepthRangeValues, dp \in BOOLEAN }

InitValidate ==
    /\ caps \in Profiles
    /\ app = "validate"
    /\ state = FreshState
    /\ dev = FreshDevice
    /\ queries = FreshQueries
    /\ log = <<>>
    /\ result = "none"
    /\ req = SimpleRequest(DefaultParams)
    /\ before = FreshState
    /\ prev = [result |-> "none", diff |-> {}, queries |-> FreshQueries]
    /\ usage = [bound |-> {}, dropped |-> {}]
    /\ renderbuffers = [id \in RenderBufferIds |-> "unused"]
    /\ framebuffers = {}

Validate ==
    \E p \in ValidateParams :
        /\ req' = SimpleRequest(p)
        /\ result' = validate(caps, p)
        /\ UNCHANGED <<caps, app, state, dev, queries, log, before, prev, usage,
                       renderbuffers, framebuffers>>

NextValidate == Validate

SpecValidate == InitValidate /\ [][NextValidate]_vars

(***************************************************************************)
(* Render buffers (framebuffer/render_buffer.rs): behaviours that create   *)
(* and drop render buffers and attach them to framebuffer objects.  req is *)
(* [op, samples, id], result is "Ok" or "panic".                           *)
(***************************************************************************)
\* GL 4.5 and GL 2.1 with gl_arb_direct_state_access (direct state access,
\* the second with and without the EXT deletion path), GL 3.0, ES 2.0 and
\* ES 3.0 (core paths), ES 2.0 with the APPLE multisample extension, GL 2.1
\* with gl_ext_framebuffer_object, with and without the EXT multisample
\* extension, and GL 2.1 with no framebuffer object support at all
RenderBufferProfiles ==
    { ProfGl45,
      Profile("Gl", 2, 1, {"gl_arb_direct_state_access", "gl_ext_framebuffer_object"}, 0),
      Profile("Gl", 2, 1, {"gl_arb_direct_state_access"}, 0),
      Profile("Gl", 3, 0, {}, 0),
      ProfGles20,
      ProfGles30,
      Profile("GlEs", 2, 0, {"gl_apple_framebuffer_multisample"}, 0),
      Profile("Gl", 2, 1, {"gl_ext_framebuffer_object", "gl_ext_framebuffer_multisample"}, 0),
      Profile("Gl", 2, 1, {"gl_ext_framebuffer_object"}, 0),
      ProfGl21 }

\* RenderBufferAny::new with the name id handed out by the device
\* (GenRenderbuffers and its variants); format, width and height are passed
\* through to the storage command
RenderBufferAny_new(c, samples, id) ==
    LET v == c.caps.version
        core3 == VersionGE(v, "Gl", 3, 0) \/ VersionGE(v, "GlEs", 3, 0)
        Gen(op) == [Emit(c, op, id) EXCEPT !.renderbuffers[id] = "alive"]
        GenAndBind(gen, bind) ==
            [Emit(Gen(gen), bind, id) EXCEPT !.state.renderbuffer = id]
        core == GenAndBind("GenRenderbuffers", "BindRenderbuffer")
        ext == GenAndBind("GenRenderbuffersEXT", "BindRenderbufferEXT")
    IN  IF VersionGE(v, "Gl", 4, 5) \/ Ext(c, "gl_arb_direct_state_access")
        THEN IF samples # <<>>
             THEN Emit(Gen("CreateRenderbuffers"),
                       "NamedRenderbufferStorageMultisample", <<id, samples[1]>>)
             ELSE Emit(Gen("CreateRenderbuffers"), "NamedRenderbufferStorage", <<id>>)
        ELSE IF samples # <<>> /\ (\/ core3
                                   \/ Ext(c, "gl_apple_framebuffer_multisample")
                                   \/ Ext(c, "gl_angle_framebuffer_multisample")
                                   \/ Ext(c, "gl_ext_multisampled_render_to_texture")
                                   \/ Ext(c, "gl_nv_framebuffer_multisample"))
        THEN IF core3
             THEN Emit(core, "RenderbufferStorageMultisample", samples)
             ELSE IF Ext(c, "gl_apple_framebuffer_multisample")
             THEN Emit(core, "RenderbufferStorageMultisampleAPPLE", samples)
             ELSE IF Ext(c, "gl_angle_framebuffer_multisample")
             THEN Emit(core, "RenderbufferStorageMultisampleANGLE", samples)
             ELSE IF Ext(c, "gl_ext_multisampled_render_to_texture")
             THEN Emit(core, "RenderbufferStorageMultisampleEXT", samples)
             ELSE IF Ext(c, "gl_nv_framebuffer_multisample")
             THEN Emit(core, "RenderbufferStorageMultisampleNV", samples)
             ELSE Fail(core, "panic")
        ELSE IF samples = <<>> /\ (VersionGE(v, "Gl", 3, 0) \/ VersionGE(v, "GlEs", 2, 0))
        THEN Emit(core, "RenderbufferStorage", <<>>)
        ELSE IF /\ samples # <<>>
                /\ Ext(c, "gl_ext_framebuffer_object")
                /\ Ext(c, "gl_ext_framebuffer_multisample")
        THEN Emit(ext, "RenderbufferStorageMultisampleEXT", samples)
        ELSE IF samples = <<>> /\ Ext(c, "gl_ext_framebuffer_object")
        THEN Emit(ext, "RenderbufferStorageEXT", <<>>)
        ELSE Fail(c, "panic")

\* FramebuffersContainer::purge_renderbuffer: the cached framebuffer objects
\* that contain the render buffer are removed
purge_renderbuffer(c, id) ==
    [c EXCEPT !.log = Append(@, Cmd("purge_renderbuffer", id)),
              !.framebuffers = {f \in @ : id \notin f}]

\* mutation: the cached binding is left alone when its buffer is deleted
RenderBufferAny_drop_keeps_binding(c, id) ==
    LET v == c.caps.version
        purged == purge_renderbuffer(c, id)
        Delete(x, op) == [Emit(x, op, id) EXCEPT !.renderbuffers[id] = "unused"]
    IN  IF VersionGE(v, "Gl", 3, 0) \/ VersionGE(v, "GlEs", 2, 0)
        THEN Delete(purged, "DeleteRenderbuffers")
        ELSE IF Ext(c, "gl_ext_framebuffer_object")
        THEN Delete(purged, "DeleteRenderbuffersEXT")
        ELSE [Fail(purged, "panic") EXCEPT !.renderbuffers[id] = "leaked"]

\* Drop for RenderBufferAny; after the unreachable!() of the last arm the
\* owner is gone and the name has not been deleted
RenderBufferAny_drop(c, id) ==
    LET v == c.caps.version
        purged == purge_renderbuffer(c, id)
        reset == IF purged.state.renderbuffer = id
                 THEN [purged EXCEPT !.state.renderbuffer = 0]
                 ELSE purged
        Delete(x, op) == [Emit(x, op, id) EXCEPT !.renderbuffers[id] = "unused"]
    IN  IF VersionGE(v, "Gl", 3, 0) \/ VersionGE(v, "GlEs", 2, 0)
        THEN Delete(reset, "DeleteRenderbuffers")
        ELSE IF Ext(c, "gl_ext_framebuffer_object")
        THEN Delete(reset, "DeleteRenderbuffersEXT")
        ELSE [Fail(purged, "panic") EXCEPT !.renderbuffers[id] = "leaked"]

InitRenderBuffers ==
    /\ caps \in RenderBufferProfiles
    /\ app = "render_buffers"
    /\ state = FreshState
    /\ dev = FreshDevice
    /\ queries = FreshQueries
    /\ log = <<>>
    /\ result = "none"
    /\ req = [op |-> "none", samples |-> <<>>, id |-> 0]
    /\ before = FreshState
    /\ prev = [result |-> "none", diff |-> {}, queries |-> FreshQueries]
    /\ usage = [bound |-> {}, dropped |-> {}]
    /\ renderbuffers = [id \in RenderBufferIds |-> "unused"]
    /\ framebuffers = {}

\* one operation r = [op, samples, id] on a render buffer, in the command
\* context of the call, and what it leaves behind
RenderBufferOp(r) ==
    LET ctxt == [caps |-> caps, state |-> state, dev |-> dev, log |-> <<>>, err |-> "none",
                 renderbuffers |-> renderbuffers, framebuffers |-> framebuffers]
        c == IF r.op = "new" THEN RenderBufferAny_new(ctxt, r.samples, r.id)
             ELSE RenderBufferAny_drop(ctxt, r.id)
    IN  /\ state' = c.state
        /\ dev' = c.dev
        /\ log' = c.log
        /\ result' = (IF c.err = "none" THEN "Ok" ELSE c.err)
        /\ req' = r
        /\ before' = state
        /\ renderbuffers' = c.renderbuffers
        /\ framebuffers' = c.framebuffers
        /\ UNCHANGED <<caps, app, queries, prev, usage>>

\* RenderBuffer::new, with or without multisampling; the device hands out
\* any name that is not in use
CreateRenderBuffer ==
    \E samples \in {<<>>, <<4>>} : \E id \in {i \in RenderBufferIds : renderbuffers[i] = "unused"} :
        RenderBufferOp([op |-> "new", samples |-> samples, id |-> id])

\* a render buffer goes out of scope
DropRenderBuffer ==
    \E id \in {i \in RenderBufferIds : renderbuffers[i] = "alive"} :
        RenderBufferOp([op |-> "drop", samples |-> <<>>, id |-> id])

\* a draw on a surface made of render buffers: the framebuffer object built
\* for these attachments is kept in the context's cache
AttachFramebuffer ==
    /\ Cardinality(framebuffers) < MaxFramebuffers
    /\ \E f \in (SUBSET {i \in RenderBufferIds : renderbuffers[i] = "alive"}) \ {{}} :
        /\ f \notin framebuffers
        /\ framebuffers' = framebuffers \cup {f}
        /\ req' = [op |-> "attach", samples |-> <<>>, id |-> 0]
        /\ result' = "Ok"
        /\ log' = <<>>
        /\ before' = state
        /\ UNCHANGED <<caps, app, state, dev, queries, prev, usage, renderbuffers>>

NextRenderBuffers == CreateRenderBuffer \/ DropRenderBuffer \/ AttachFramebuffer

SpecRenderBuffers == InitRenderBuffers /\ [][NextRenderBuffers]_vars

(***************************************************************************)
(* Properties                                                              *)
(***************************************************************************)
Called == result # "none"
Ok == result = "Ok"
Errored == result \notin {"none", "Ok", "panic"}

\* the positions of the draw-submission commands in the log
Submissions == {i \in 1 .. Len(log) : log[i].op \in DrawOps}

\* the positions of the state-synchronisation commands in the log
SyncCommands == {i \in 1 .. Len(log) : CmdDim(log[i]) # "none"}

\* the buffers on which the last call inserted a fence
Fenced == {log[i].a[1] : i \in {j \in 1 .. Len(log) : log[j].op = "insert_fence"}}

\* the device state after the commands l[i..] are applied to d
RECURSIVE Replay(_, _, _)
Replay(d, l, i) ==
    IF i > Len(l) THEN d ELSE Replay(DeviceApply(d, l[i]), l, i + 1)

\* C1: after any sequence of draw calls, successful or failed, every state
\* dimension handled by the sync_* functions has the same value in the
\* cached state as on the device, and the last call changed the cached
\* value of a dimension exactly when it emitted a command of that dimension.
C1_CacheMirrorsDevice ==
    /\ \A d \in Dims : StateDim(state, d) = StateDim(dev, d)
    /\ \A d \in Dims : (StateDim(state, d) # StateDim(before, d)) <=> (d \in LogDims(log))

\* a call that failed in the middle of the synchronisation, after commands
\* had been emitted
C1_Witness ==
    /\ result = "BlendingParameterNotSupported"
    /\ "blend" \in LogDims(log)
    /\ state.enabled_blend /\ dev.enabled_blend

\* the dimensions C2 lists: all but the query and conditional-render bindings
C2Dims == Dims \ {"queries", "conditional_render"}

\* C2: when a draw succeeds and the next draw has the identical request, the
\* second draw emits no state-synchronisation command of the listed
\* dimensions.
C2_RepeatedDrawEmitsNothing ==
    (prev.result = "Ok" /\ prev.diff = {} /\ Called) => LogDims(log) \cap C2Dims = {}

\* a non-default request drawn twice with success
C2_Witness ==
    /\ prev.result = "Ok" /\ prev.diff = {} /\ Ok
    /\ req.params.depth_test = "IfLess"
    /\ state.enabled_depth_test
    /\ SyncCommands = {}

\* C3: when two consecutive successful draws differ in exactly one state
\* dimension of their parameters, the second one emits commands of that
\* dimension only and leaves the cached values of the others unchanged.
C3_OneDimensionChanged ==
    (prev.result = "Ok" /\ Ok /\ Cardinality(prev.diff) = 1 /\ prev.diff \subseteq Dims)
        => /\ LogDims(log) \subseteq prev.diff
           /\ \A d \in Dims \ prev.diff : StateDim(state, d) = StateDim(before, d)

\* the second draw changed the blend dimension only and emitted for it
C3_Witness ==
    /\ prev.result = "Ok" /\ Ok /\ prev.diff = {"blend"}
    /\ LogDims(log) = {"blend"}
    /\ StateDim(state, "blend") # StateDim(before, "blend")

\* C4: the draw-call counter is one more than before after a call that
\* returned Ok and is unchanged after a call that returned an error.
C4_CounterCountsSuccesses ==
    /\ Ok => state.next_draw_call_id = before.next_draw_call_id + 1
    /\ (Called /\ ~Ok) => state.next_draw_call_id = before.next_draw_call_id

\* a call that failed at the submission step, after an earlier success
C4_Witness ==
    /\ result = "VerticesSourcesLengthMismatch"
    /\ state.next_draw_call_id = 2
    /\ before.next_draw_call_id = 2

\* C5: a call that returned Ok issued exactly one draw-submission command, a
\* call that returned an error issued none.
C5_OneSubmission ==
    /\ Ok => Cardinality(Submissions) = 1
    /\ (Called /\ ~Ok) => Submissions = {}

\* an instanced array draw that succeeded
C5_Witness ==
    /\ Ok
    /\ \E i \in Submissions : log[i].op = "DrawArraysInstanced"

\* C6: within a call every state-synchronisation command precedes the
\* submission command, and the cached state after the call is the cached
\* state the previous call left with the commands of this call applied.
C6_SyncBeforeSubmission ==
    /\ \A i \in SyncCommands : \A j \in Submissions : i < j
    /\ \A d \in Dims : StateDim(Replay(before, log, 1), d) = StateDim(state, d)

\* a successful draw that synchronised state against the cache left by an
\* earlier successful draw
C6_Witness ==
    /\ prev.result = "Ok" /\ Ok
    /\ before # FreshState
    /\ SyncCommands # {} /\ Submissions # {}

\* the buffers supplied in a request: the vertex buffers, the index buffer
\* and the indirect command buffer
RequestBuffers(r) ==
    {r.vertex_buffers[i].id :
        i \in {j \in 1 .. Len(r.vertex_buffers) : r.vertex_buffers[j].kind = "VertexBuffer"}}
    \cup ({r.indices.buffer.id, r.indices.commands.id} \ {0})

\* C7: after a call that returned Ok, a fence has been inserted on every
\* buffer supplied in the request.
C7_EveryBufferFenced ==
    Ok => RequestBuffers(req) \subseteq Fenced


\* the errors raised by the phases of draw that precede sync_queries
ErrorsBeforeQueries ==
    {"InvalidDepthRange", "RasterizerDiscardNotSupported", "TessellationNotSupported",
     "UnsupportedVerticesPerPatch", "InstancesCountMismatch",
     "UniformTypeMismatch", "DepthClampNotSupported",
     "BlendingParameterNotSupported", "panic"}

\* the last call was a draw that got past sync_queries
PassedQuerySync == Called /\ result \notin ErrorsBeforeQueries \cup {"WrongQueryOperation"}

\* the last call was a draw binding query q of category cat
Binds(cat, q) == Called /\ Requested(req, cat) = q

\* the commands of the last call that begin or end a query of a category
QueryCmds(cat) ==
    LET OfCat(cmd) == cmd.op \in {"BeginQuery", "EndQuery"} /\ cmd.a[1] = cat
    IN  SelectSeq(log, OfCat)

\* what changing the active query of a category from cur to want emits
Transition(cat, cur, want) ==
    IF cur = want THEN <<>>
    ELSE (IF cur # NoQuery THEN <<Cmd("EndQuery", <<cat, cur>>)>> ELSE <<>>)
         \o (IF want # NoQuery THEN <<Cmd("BeginQuery", <<cat, want>>)>> ELSE <<>>)

\* the device never has two queries of a category running: every BeginQuery
\* of l[i..] finds none running, every EndQuery ends the running one
RECURSIVE OneAtATime(_, _, _, _)
OneAtATime(cat, l, i, active) ==
    IF i > Len(l) THEN TRUE
    ELSE IF l[i].op = "BeginQuery" /\ l[i].a[1] = cat
         THEN active = NoQuery /\ OneAtATime(cat, l, i + 1, l[i].a[2])
    ELSE IF l[i].op = "EndQuery" /\ l[i].a[1] = cat
         THEN active = l[i].a[2] /\ OneAtATime(cat, l, i + 1, NoQuery)
    ELSE OneAtATime(cat, l, i + 1, active)

\* C8: a query that a successful draw bound and a later successful draw
\* did not bind (it bound none, or another one, in that category) cannot be
\* bound again: a draw that binds it and reaches the synchronisation of the
\* queries fails with WrongQueryOperation, and no draw that binds it succeeds.
C8_ReboundQueryFails ==
    \A cat \in Categories : \A q \in QueryIds :
        (<<cat, q>> \in usage.dropped /\ Binds(cat, q)) =>
            /\ ~Ok
            /\ result \notin ErrorsBeforeQueries => result = "WrongQueryOperation"

C8_Witness ==
    /\ <<"time_elapsed", 1>> \in usage.dropped
    /\ Binds("time_elapsed", 1)
    /\ result = "WrongQueryOperation"

\* C9: in each category, a draw that gets past the synchronisation of the
\* queries has emitted exactly the end of the query that was active (if any)
\* followed by the begin of the requested one (if any) when the two differ,
\* and nothing when they are equal; afterwards the active query is the
\* requested one.  At every point at most one query of a category is active,
\* on the device and among the query objects.
C9_EndBeforeBegin ==
    \A cat \in Categories :
        /\ PassedQuerySync =>
              /\ QueryCmds(cat) = Transition(cat, before.query[cat], Requested(req, cat))
              /\ state.query[cat] = Requested(req, cat)
        /\ OneAtATime(cat, log, 1, before.query[cat])
        /\ {q \in QueryIds : queries[cat][q] = "Active"} = {state.query[cat]} \ {NoQuery}
        /\ dev.query[cat] = state.query[cat]

C9_Witness ==
    /\ Ok
    /\ before.query["samples_passed"] = 1
    /\ Requested(req, "samples_passed") = 2
    /\ QueryCmds("samples_passed") = <<Cmd("EndQuery", <<"samples_passed", 1>>),
                                       Cmd("BeginQuery", <<"samples_passed", 2>>)>>
    /\ queries["samples_passed"] = [q \in QueryIds |-> IF q = 1 THEN "Finished" ELSE "Active"]

\* C10: a query object that was Finished before a call is Finished after
\* it; a draw that binds it does not succeed, fails with WrongQueryOperation
\* when it reaches the synchronisation of the queries, and emits no BeginQuery
\* for it.
C10_FinishedIsPermanent ==
    \A cat \in Categories : \A q \in QueryIds :
        prev.queries[cat][q] = "Finished" =>
            /\ queries[cat][q] = "Finished"
            /\ state.query[cat] # q
            /\ Binds(cat, q) =>
                  /\ ~Ok
                  /\ result \notin ErrorsBeforeQueries => result = "WrongQueryOperation"
                  /\ \A i \in 1 .. Len(log) : log[i] # Cmd("BeginQuery", <<cat, q>>)

\* a query finished by a readback, never dropped by a draw, is bound again
C10_Witness ==
    /\ prev.queries["samples_passed"][1] = "Finished"
    /\ <<"samples_passed", 1>> \notin usage.dropped
    /\ Binds("samples_passed", 1)
    /\ result = "WrongQueryOperation"

\* a depth-range component outside [0.0, 1.0]
OutsideUnit(n) == n \notin 0 .. 2

\* the parameters ask for rasterizer discard on a profile that validate
\* rejects it for
DiscardRejected(context, params) ==
    /\ ~params.draw_primitives
    /\ VersionLT(context.version, "Gl", 3, 0)
    /\ "gl_ext_transform_feedback" \notin context.extensions

ConfigurationErrors == {"InvalidDepthRange", "RasterizerDiscardNotSupported"}

\* C12: whenever draw returns InvalidDepthRange or
\* RasterizerDiscardNotSupported, on any profile and from any cache, the
\* call issued no device command and left the cached state as it was.
C12_ConfigurationErrorsArePreflight ==
    result \in ConfigurationErrors => (log = <<>> /\ state = before)

\* the lengths of the per-vertex and of the per-instance sources of a list
PerVertexLens(vb) == {vb[i].len : i \in {j \in 1 .. Len(vb) : ~vb[j].per_instance}}
PerInstanceLens(vb) == {vb[i].len : i \in {j \in 1 .. Len(vb) : vb[j].per_instance}}

\* the counts the scan of a source list ends with
Reconciled(vb) ==
    scan_sources(vb, 1, [vertices_count |-> <<>>, instances_count |-> <<>>,
                         fences |-> <<>>, bound |-> <<>>, err |-> "none"])

\* the reconciliation errors
ReconciliationErrors == {"VerticesSourcesLengthMismatch", "InstancesCountMismatch"}

\* C13: when the per-vertex sources of the list (buffers and markers) all
\* have one length n and the per-instance sources all have one length m,
\* the scan ends with vertices_count n and instances_count m (none without
\* a per-instance source), the draw does not fail on the counts, and without
\* an index buffer it submits DrawArraysInstanced of n vertices and m
\* instances, or DrawArrays of n vertices when no source is per-instance.
C13_AgreeingSourcesGiveCounts ==
    (/\ Called
     /\ Cardinality(PerVertexLens(req.vertex_buffers)) = 1
     /\ Cardinality(PerInstanceLens(req.vertex_buffers)) <= 1) =>
        LET n == CHOOSE x \in PerVertexLens(req.vertex_buffers) : TRUE
            ms == PerInstanceLens(req.vertex_buffers)
            counts == Reconciled(req.vertex_buffers)
        IN  /\ counts.vertices_count = <<n>>
            /\ counts.err = "none"
            /\ ms = {} => counts.instances_count = <<>>
            /\ \A m \in ms : counts.instances_count = <<m>>
            /\ result \notin ReconciliationErrors
            /\ (Ok /\ req.indices.kind = "NoIndices") =>
                  /\ Submissions # {}
                  /\ \A i \in Submissions :
                        /\ ms = {} => (log[i].op = "DrawArrays" /\ log[i].a[2] = n)
                        /\ \A m \in ms : /\ log[i].op = "DrawArraysInstanced"
                                          /\ log[i].a[2] = n
                                          /\ log[i].a[3] = m

\* two per-vertex sources of 3 vertices and a per-instance source of 2
\* instances, drawn without indices
C13_Witness ==
    /\ Ok
    /\ req.indices.kind = "NoIndices"
    /\ PerVertexLens(req.vertex_buffers) = {3}
    /\ PerInstanceLens(req.vertex_buffers) = {2}
    /\ Len(req.vertex_buffers) = 3
    /\ \E i \in Submissions : log[i].op = "DrawArraysInstanced" /\ log[i].a[2] = 3 /\ log[i].a[3] = 2

\* C14: when two per-vertex sources of the list have different lengths, a
\* draw without index buffer and without multidraw fails with
\* VerticesSourcesLengthMismatch (unless a per-instance disagreement was met
\* first), and a draw with an index buffer or a multidraw source does not
\* fail with VerticesSourcesLengthMismatch.
C14_VertexMismatchNeedsNoIndices ==
    (Called /\ Cardinality(PerVertexLens(req.vertex_buffers)) >= 2) =>
        /\ req.indices.kind = "NoIndices" =>
              \/ result = "VerticesSourcesLengthMismatch"
              \/ /\ Cardinality(PerInstanceLens(req.vertex_buffers)) >= 2
                 /\ result = "InstancesCountMismatch"
        /\ req.indices.kind # "NoIndices" => result # "VerticesSourcesLengthMismatch"
        /\ (req.indices.kind # "NoIndices"
              /\ Cardinality(PerInstanceLens(req.vertex_buffers)) <= 1) => Ok

\* per-vertex sources of 3 and 4 vertices drawn without indices
C14_Witness ==
    /\ result = "VerticesSourcesLengthMismatch"
    /\ req.indices.kind = "NoIndices"
    /\ PerVertexLens(req.vertex_buffers) = {3, 4}
    /\ Submissions = {}

\* C15: whenever two per-instance sources of the list have different
\* lengths the draw fails with InstancesCountMismatch, whatever the index
\* source and the other sources of the list.
C15_InstanceMismatchAlwaysFails ==
    (Called /\ Cardinality(PerInstanceLens(req.vertex_buffers)) >= 2) =>
        result = "InstancesCountMismatch"

\* C16: whenever draw returns VerticesSourcesLengthMismatch or
\* InstancesCountMismatch the cached state is what it was before the call
\* and the call emitted no state-synchronisation command.
C16_ReconciliationErrorsBeforeMutation ==
    result \in ReconciliationErrors => (state = before /\ SyncCommands = {})

\* the errors draw returns before it calls sync_depth
ErrorsBeforeSync ==
    {"TessellationNotSupported", "UnsupportedVerticesPerPatch", "InstancesCountMismatch",
     "UniformTypeMismatch", "panic"}

\* the last call went through the depth test synchronisation
DepthSynced ==
    /\ Called
    /\ validate(caps, req.params) = "Ok"
    /\ result \notin ErrorsBeforeSync \cup {"DepthClampNotSupported"}

\* the positions in the log of the commands with operation op
Emitted(op) == {i \in 1 .. Len(log) : log[i].op = op}

\* the positions in the log of a command
EmittedCmd(op, a) == {i \in 1 .. Len(log) : log[i] = Cmd(op, a)}

\* the last call asked for depth_test = Overwrite without depth write
OverwriteNoWrite == req.params.depth_test = "Overwrite" /\ ~req.params.depth_write

\* the last call left the depth function and the depth mask alone
DepthTestUntouched ==
    /\ Emitted("DepthFunc") = {}
    /\ Emitted("DepthMask") = {}
    /\ EmittedCmd("Enable", "DEPTH_TEST") = {}
    /\ state.depth_func = before.depth_func
    /\ state.depth_mask = before.depth_mask
    /\ ~state.enabled_depth_test

\* C17: synchronising depth_test = Overwrite with depth_write = false
\* against a fresh cache emits exactly one Disable(DEPTH_TEST) and no other
\* depth command; against any cache it emits no DepthFunc and no DepthMask
\* and leaves the cached depth function and depth mask unchanged.
C17_OverwriteEmitsOneDisable ==
    (DepthSynced /\ OverwriteNoWrite) =>
        /\ DepthTestUntouched
        /\ before = FreshState =>
              /\ Cardinality(EmittedCmd("Disable", "DEPTH_TEST")) = 1
              /\ req.params.depth_range = before.depth_range => Emitted("DepthRange") = {}

\* C17 (amended): synchronising depth_test = Overwrite with depth_write =
\* false emits one Disable(DEPTH_TEST) when the cache has the depth test
\* enabled and none when it has it disabled, as in a fresh cache; against
\* any cache it emits no DepthFunc, no DepthMask and no Enable(DEPTH_TEST),
\* leaves the cached depth function and depth mask unchanged and the depth
\* test disabled; DepthRange is emitted only for a depth range that differs
\* from the cached one.
C17_OverwriteDisablesWhenEnabled ==
    (DepthSynced /\ OverwriteNoWrite) =>
        /\ DepthTestUntouched
        /\ Cardinality(EmittedCmd("Disable", "DEPTH_TEST")) =
              (IF before.enabled_depth_test THEN 1 ELSE 0)
        /\ req.params.depth_range = before.depth_range => Emitted("DepthRange") = {}

\* Overwrite without write after a draw that enabled the depth test and
\* cleared the depth mask
C17_Witness ==
    /\ Ok
    /\ OverwriteNoWrite
    /\ before.enabled_depth_test
    /\ before.depth_mask # FreshState.depth_mask
    /\ Cardinality(EmittedCmd("Disable", "DEPTH_TEST")) = 1

\* the last call went through sync_blending
BlendSynced == DepthSynced

\* the blend of the last call is no blending at all
NoBlending ==
    req.params.blend.color.f = "AlwaysReplace" /\ req.params.blend.alpha.f = "AlwaysReplace"

\* the equation and the factor pair a blending function asks for
RequestedEquation(f) ==
    CASE f.f \in {"AlwaysReplace", "Addition"} -> "FUNC_ADD"
      [] f.f = "Subtraction" -> "FUNC_SUBTRACT"
      [] f.f = "ReverseSubtraction" -> "FUNC_REVERSE_SUBTRACT"
      [] f.f = "Min" -> "MIN"
      [] f.f = "Max" -> "MAX"

RequestedFactors(f) ==
    IF f.f \in {"Addition", "Subtraction", "ReverseSubtraction"}
    THEN <<LinearBlendingFactorToGlenum(f.source), LinearBlendingFactorToGlenum(f.destination)>>
    ELSE <<"ONE", "ZERO">>

\* the blend values of a cache or of the device are those of a blend
BlendIs(st, blend) ==
    /\ st.enabled_blend
    /\ st.blend_equation = <<RequestedEquation(blend.color), RequestedEquation(blend.alpha)>>
    /\ st.blend_func = RequestedFactors(blend.color) \o RequestedFactors(blend.alpha)
    /\ st.blend_color = blend.constant_value

StencilSynced == DepthSynced

\* the operations of the two windings
StencilOperations(p) ==
    { p.stencil_fail_operation_clockwise, p.stencil_pass_depth_fail_operation_clockwise,
      p.stencil_depth_pass_operation_clockwise, p.stencil_fail_operation_counter_clockwise,
      p.stencil_pass_depth_fail_operation_counter_clockwise,
      p.stencil_depth_pass_operation_counter_clockwise }

\* the parameters ask for a stencil test that does something
StencilRequested(p) ==
    \/ p.stencil_test_clockwise.test # "AlwaysPass"
    \/ p.stencil_test_counter_clockwise.test # "AlwaysPass"
    \/ StencilOperations(p) # {"Keep"}

\* C19: after every stencil synchronisation the stencil-test enable flag of
\* the cache and of the device is true exactly when the test of a winding
\* is not AlwaysPass or one of the six operations is not Keep, whatever the
\* cache held before.
C19_StencilEnabledIffRequested ==
    StencilSynced =>
        /\ state.enabled_stencil_test = StencilRequested(req.params)
        /\ dev.enabled_stencil_test = StencilRequested(req.params)

\* a single operation other than Keep, both tests AlwaysPass, against a
\* cache with the stencil test disabled
C19_Witness ==
    /\ Ok
    /\ req.params.stencil_test_clockwise.test = "AlwaysPass"
    /\ req.params.stencil_test_counter_clockwise.test = "AlwaysPass"
    /\ req.params.stencil_pass_depth_fail_operation_counter_clockwise # "Keep"
    /\ ~before.enabled_stencil_test
    /\ state.enabled_stencil_test
    /\ EmittedCmd("Enable", "STENCIL_TEST") # {}

\* C20: after every stencil synchronisation the back-face settings (test
\* function, reference value, read mask, write mask, operations) are those
\* of the clockwise parameters and the front-face settings those of the
\* counter-clockwise parameters; the front write mask is
\* stencil_write_mask_counter_clockwise.
C20_FrontIsCounterClockwise ==
    StencilSynced =>
        LET p == req.params
            cw == StencilTestGl(p.stencil_test_clockwise)
            ccw == StencilTestGl(p.stencil_test_counter_clockwise)
        IN  /\ state.stencil_func_back = <<cw[1], p.stencil_reference_value_clockwise, cw[2]>>
            /\ state.stencil_func_front =
                  <<ccw[1], p.stencil_reference_value_counter_clockwise, ccw[2]>>
            /\ state.stencil_mask_back = p.stencil_write_mask_clockwise
            /\ state.stencil_mask_front = p.stencil_write_mask_counter_clockwise
            /\ state.stencil_op_back =
                  <<StencilOperationToGlenum(p.stencil_fail_operation_clockwise),
                    StencilOperationToGlenum(p.stencil_pass_depth_fail_operation_clockwise),
                    StencilOperationToGlenum(p.stencil_depth_pass_operation_clockwise)>>
            /\ state.stencil_op_front =
                  <<StencilOperationToGlenum(p.stencil_fail_operation_counter_clockwise),
                    StencilOperationToGlenum(p.stencil_pass_depth_fail_operation_counter_clockwise),
                    StencilOperationToGlenum(p.stencil_depth_pass_operation_counter_clockwise)>>

\* C21: on a profile without gl_amd_depth_clamp_separate a draw that asks
\* for ClampNear or ClampFar fails with DepthClampNotSupported from every
\* reachable cache, emits no depth-clamp command and leaves both cached
\* clamp flags (and those of the device) as they were.
C21_SplitClampNeedsExtension ==
    (/\ Called /\ validate(caps, req.params) = "Ok" /\ result \notin ErrorsBeforeSync
     /\ req.params.depth_clamp \in {"ClampNear", "ClampFar"}
     /\ "gl_amd_depth_clamp_separate" \notin caps.extensions) =>
        /\ result = "DepthClampNotSupported"
        /\ \A i \in Emitted("Enable") \cup Emitted("Disable") :
              log[i].a \notin {"DEPTH_CLAMP", "DEPTH_CLAMP_NEAR_AMD", "DEPTH_CLAMP_FAR_AMD"}
        /\ state.enabled_depth_clamp_near = before.enabled_depth_clamp_near
        /\ state.enabled_depth_clamp_far = before.enabled_depth_clamp_far
        /\ dev.enabled_depth_clamp_near = state.enabled_depth_clamp_near
        /\ dev.enabled_depth_clamp_far = state.enabled_depth_clamp_far

\* ClampNear refused against a cache that an earlier Clamp draw left with
\* both flags set
C21_Witness ==
    /\ result = "DepthClampNotSupported"
    /\ req.params.depth_clamp = "ClampNear"
    /\ "gl_amd_depth_clamp_separate" \notin caps.extensions
    /\ before.enabled_depth_clamp_near /\ before.enabled_depth_clamp_far
    /\ state.enabled_depth_clamp_near /\ state.enabled_depth_clamp_far

\* C22: a draw that asks for NoClamp never fails with
\* DepthClampNotSupported, on any profile and from any reachable cache.
C22_NoClampNeverFails ==
    (Called /\ req.params.depth_clamp = "NoClamp") => result # "DepthClampNotSupported"

C24_FailedDrawLeavesDevice ==
    (Errored /\ Submissions = {}) =>
        \A d \in Dims : StateDim(dev, d) = StateDim(before, d)

TargetBindings == Emitted("bind_framebuffer") \cup Emitted("use_program") \cup Emitted("bind_uniforms")

\* C26: within a call every state-synchronisation command is emitted before
\* the framebuffer, the program and the uniforms are bound.
C26_SyncBeforeBinding ==
    Called => \A i \in SyncCommands : \A j \in TargetBindings : i < j

\* C26 (amended): within a call the vertex attributes, the framebuffer, the
\* program and the uniforms are bound before the first
\* state-synchronisation command, and the state is synchronised before the
\* submission; a failure while binding the uniforms comes before any
\* state synchronisation, with the cache as it was.
C26_BindingBeforeSync ==
    Called =>
        /\ \A j \in TargetBindings \cup Emitted("bind_vertex_attributes") :
              \A i \in SyncCommands \cup Submissions : j < i
        /\ \A i \in SyncCommands : \A k \in Submissions : i < k
        /\ (SyncCommands # {} \/ Submissions # {}) =>
              (Emitted("bind_framebuffer") # {} /\ Emitted("use_program") # {}
                 /\ Emitted("bind_uniforms") # {})
        /\ result = "UniformTypeMismatch" =>
              (SyncCommands = {} /\ Submissions = {} /\ state = before
                 /\ Emitted("use_program") # {})

\* a successful draw that had a state-synchronisation command to emit
C26_Witness ==
    /\ Ok
    /\ SyncCommands # {}
    /\ TargetBindings # {}
    /\ \A j \in TargetBindings : \A i \in SyncCommands : j < i

C28_BoundingBoxFirstPathOrIgnored ==
    LET bb == req.params.primitive_bounding_box
        paths == <<"PrimitiveBoundingBox", "PrimitiveBoundingBoxARB",
                   "PrimitiveBoundingBoxOES", "PrimitiveBoundingBoxEXT">>
        offered == <<VersionGE(caps.version, "GlEs", 3, 2),
                     "gl_arb_es3_2_compatibility" \in caps.extensions,
                     "gl_oes_primitive_bounding_box" \in caps.extensions,
                     "gl_ext_primitive_bounding_box" \in caps.extensions>>
        emitted == {i \in 1 .. Len(log) : \E k \in 1 .. 4 : log[i].op = paths[k]}
        same == draw([caps |-> caps, state |-> before, dev |-> dev,
                      queries |-> prev.queries, log |-> <<>>, fences |-> <<>>,
                      err |-> "none"],
                     [req EXCEPT !.params.primitive_bounding_box =
                                     before.primitive_bounding_box])
    IN  (Called /\ bb # before.primitive_bounding_box /\ same.err = "none") =>
            /\ Ok
            /\ IF \A k \in 1 .. 4 : ~offered[k]
               THEN /\ emitted = {}
                    /\ log = same.log
                    /\ state = same.state
                    /\ state.primitive_bounding_box = before.primitive_bounding_box
               ELSE LET first == CHOOSE k \in 1 .. 4 :
                                     offered[k] /\ \A j \in 1 .. k - 1 : ~offered[j]
                    IN  /\ Cardinality(emitted) = 1
                        /\ \A i \in emitted : log[i] = Cmd(paths[first], bb)
                        /\ \A i \in emitted : \A k \in Submissions : i < k
                        /\ state.primitive_bounding_box = bb

\* a box is requested on a profile that offers the OES and the EXT path
C28_Witness ==
    /\ Ok
    /\ req.params.primitive_bounding_box # before.primitive_bounding_box
    /\ ~VersionGE(caps.version, "GlEs", 3, 2)
    /\ "gl_arb_es3_2_compatibility" \notin caps.extensions
    /\ {"gl_oes_primitive_bounding_box", "gl_ext_primitive_bounding_box"}
           \subseteq caps.extensions
    /\ Emitted("PrimitiveBoundingBoxOES") # {}

\* C29: smoothing synchronization.  A request for smoothing (Some hint) with
\* a Points primitive, or on a profile that is not desktop GL, fails with
\* SmoothingNotSupported, emits no smoothing command and leaves the cached
\* smoothing state as it was; with a line-class primitive it enables line
\* smoothing and writes the line hint, each only if the cache differs; with
\* any other primitive it does the same for polygon smoothing; a request for
\* no smoothing emits at most one Disable, for the class of the current
\* primitive and only if that class is enabled, and never a Hint.
C29_SmoothingByPrimitiveClass ==
    LET smooth == req.params.smooth
        type == req.indices.primitives.type
        line == type \in LinePrimitives
        hint == SmoothToGlenum(smooth[1])
        cap == IF line THEN "LINE_SMOOTH" ELSE "POLYGON_SMOOTH"
        other == IF line THEN "POLYGON_SMOOTH" ELSE "LINE_SMOOTH"
        target == IF line THEN "LINE_SMOOTH_HINT" ELSE "POLYGON_SMOOTH_HINT"
        k == IF line THEN 1 ELSE 2
        was == IF line THEN before.enabled_line_smooth ELSE before.enabled_polygon_smooth
        is == IF line THEN state.enabled_line_smooth ELSE state.enabled_polygon_smooth
        smoothing == {i \in 1 .. Len(log) : CmdDim(log[i]) = "smooth"}
    IN  DepthSynced =>
          IF smooth # <<>> /\ (type = "Points" \/ caps.version.api # "Gl")
          THEN /\ result = "SmoothingNotSupported"
               /\ smoothing = {}
               /\ StateDim(state, "smooth") = StateDim(before, "smooth")
          ELSE IF smooth # <<>>
          THEN /\ result # "SmoothingNotSupported"
               /\ Cardinality(EmittedCmd("Enable", cap)) = (IF was THEN 0 ELSE 1)
               /\ Cardinality(EmittedCmd("Hint", <<target, hint>>))
                      = (IF before.smooth[k] = hint THEN 0 ELSE 1)
               /\ smoothing = EmittedCmd("Enable", cap) \cup EmittedCmd("Hint", <<target, hint>>)
               /\ \A i \in EmittedCmd("Enable", cap) :
                      \A j \in EmittedCmd("Hint", <<target, hint>>) : i < j
               /\ is /\ state.smooth[k] = hint
               /\ state.smooth[3 - k] = before.smooth[3 - k]
          ELSE /\ result # "SmoothingNotSupported"
               /\ Emitted("Hint") = {}
               /\ Cardinality(smoothing) <= 1
               /\ smoothing = EmittedCmd("Disable", cap)
               /\ (smoothing # {}) <=> (type # "Points" /\ was)
               /\ state.smooth = before.smooth
               /\ (type # "Points") => ~is

\* a line is drawn with a hint other than the cached one while line smoothing
\* is already enabled: the hint is written, the capability is not enabled again
C29_Witness ==
    /\ Ok
    /\ req.params.smooth # <<>>
    /\ req.indices.primitives.type \in LinePrimitives
    /\ before.enabled_line_smooth
    /\ before.smooth[1] # state.smooth[1]
    /\ EmittedCmd("Enable", "LINE_SMOOTH") = {}
    /\ Emitted("Hint") # {}

\* C30: a requested viewport whose width or height exceeds the device's
\* max_viewport_dims (or, when no viewport is requested, surface dimensions
\* exceeding it) aborts the call with a fatal assertion failure, not a
\* DrawError; no Viewport command has been emitted, the cached viewport (and
\* every dimension synchronised after it) is unchanged and nothing is
\* submitted, while the dimensions synchronised earlier in the call (depth
\* through dithering) have been applied exactly as in the same call with a
\* viewport that fits.
C30_OversizeViewportPanics ==
    LET size == IF req.params.viewport # <<>>
                THEN <<req.params.viewport[1].width, req.params.viewport[1].height>>
                ELSE req.dimensions
        oversize == \/ size[1] > caps.max_viewport_dims[1]
                    \/ size[2] > caps.max_viewport_dims[2]
        earlier == {"depth", "stencil", "blend", "color_mask", "line_width",
                    "point_size", "polygon_mode", "multisampling", "dithering"}
        fits == draw([caps |-> caps, state |-> before, dev |-> dev,
                      queries |-> prev.queries, log |-> <<>>, fences |-> <<>>,
                      err |-> "none"],
                     [req EXCEPT !.params.viewport = <<Rect(0, 0, 1, 1)>>])
    IN  (/\ Called /\ oversize
         /\ validate(caps, req.params) = "Ok"
         /\ fits.err \notin ErrorsBeforeSync \cup {"DepthClampNotSupported",
                                                  "BlendingParameterNotSupported"}) =>
            /\ result = "panic"
            /\ ~Errored
            /\ Emitted("Viewport") = {}
            /\ state.viewport = before.viewport
            /\ Submissions = {} /\ Emitted("insert_fence") = {}
            /\ state.next_draw_call_id = before.next_draw_call_id
            /\ \A d \in Dims \ earlier : StateDim(state, d) = StateDim(before, d)
            /\ \A d \in earlier : StateDim(state, d) = StateDim(fits.state, d)
            /\ Len(log) <= Len(fits.log) /\ log = SubSeq(fits.log, 1, Len(log))
            /\ \A i \in SyncCommands : CmdDim(log[i]) \in earlier

\* an oversize viewport is requested together with a depth test and no
\* dithering: the call panics after DepthFunc and Disable(DITHER)
C30_Witness ==
    /\ result = "panic"
    /\ req.params.viewport # <<>>
    /\ ~req.params.dithering
    /\ Emitted("DepthFunc") # {} \/ Emitted("DepthMask") # {} \/ EmittedCmd("Enable", "DEPTH_TEST") # {}
    /\ EmittedCmd("Disable", "DITHER") # {}
    /\ state.enabled_depth_test /\ ~before.enabled_depth_test
    /\ Emitted("Viewport") = {}

\* C31: a requested scissor rectangle is bounds-checked against the device
\* limits: a call whose scissor is wider or higher than max_viewport_dims is
\* aborted as a fatal precondition violation, and no Scissor command carrying
\* those dimensions is emitted.
C31_OversizeScissorPanics ==
    (/\ Called /\ req.params.scissor # <<>>
     /\ \/ req.params.scissor[1].width > caps.max_viewport_dims[1]
        \/ req.params.scissor[1].height > caps.max_viewport_dims[2]) =>
        /\ result # "Ok"
        /\ EmittedCmd("Scissor", <<RectToGl(req.params.scissor[1])>>) = {}

\* C32: a call that reaches sync_blending asking for Min or Max on a profile
\* at or below GLES 2.0 without gl_ext_blend_minmax fails with
\* BlendingParameterNotSupported, and no other call does.  The failed call
\* emits no BlendEquationSeparate, BlendFuncSeparate or BlendColor command
\* and leaves the cached equation, factors and constant color unchanged; its
\* only possible effect in the blending dimension is that blending has been
\* enabled (Enable(BLEND) emitted and the cached flag set together); the
\* dimensions after blending in the sync order are untouched and nothing is
\* submitted.
C32_UnsupportedBlendOnlyEnables ==
    LET blend == req.params.blend
        later == Dims \ {"depth", "stencil", "blend"}
        unsupported ==
            /\ {blend.color.f, blend.alpha.f} \cap {"Min", "Max"} # {}
            /\ VersionLE(caps.version, "GlEs", 2, 0)
            /\ "gl_ext_blend_minmax" \notin caps.extensions
    IN  /\ (DepthSynced /\ unsupported) => result = "BlendingParameterNotSupported"
        /\ result = "BlendingParameterNotSupported" =>
              /\ unsupported
              /\ Emitted("BlendEquationSeparate") = {}
              /\ Emitted("BlendFuncSeparate") = {}
              /\ Emitted("BlendColor") = {}
              /\ state.blend_equation = before.blend_equation
              /\ state.blend_func = before.blend_func
              /\ state.blend_color = before.blend_color
              /\ EmittedCmd("Disable", "BLEND") = {}
              /\ Cardinality(EmittedCmd("Enable", "BLEND"))
                    = (IF before.enabled_blend THEN 0 ELSE 1)
              /\ state.enabled_blend
              /\ \A d \in later : StateDim(state, d) = StateDim(before, d)
              /\ \A i \in SyncCommands : CmdDim(log[i]) \notin later
              /\ Submissions = {}

\* Min is requested on GLES 2.0 with a constant color other than the cached
\* one while blending is disabled: the call fails having enabled blending
C32_Witness ==
    /\ result = "BlendingParameterNotSupported"
    /\ req.params.blend.constant_value # before.blend_color
    /\ ~before.enabled_blend
    /\ EmittedCmd("Enable", "BLEND") # {}
    /\ state.enabled_blend

\* C33: for a Patches primitive draw fails with TessellationNotSupported when
\* the profile has no max_patch_vertices, and with UnsupportedVerticesPerPatch
\* when vertices_per_patch is 0 or greater than max_patch_vertices; both are
\* returned before the context is made current: no command is emitted, no
\* fence is inserted and the cache is unchanged.  Otherwise the patch-vertex
\* count is synchronised (one PatchParameteri iff it differs from the cache),
\* and a draw of another primitive never touches the cached count.
C33_PatchVerticesCheckedThenSynced ==
    LET primitives == req.indices.primitives
        patches == primitives.type = "Patches"
        n == primitives.vertices_per_patch
        max == caps.max_patch_vertices
    IN  (Called /\ validate(caps, req.params) = "Ok") =>
          IF patches /\ max = 0
          THEN result = "TessellationNotSupported" /\ log = <<>> /\ state = before
          ELSE IF patches /\ (n = 0 \/ n > max)
          THEN result = "UnsupportedVerticesPerPatch" /\ log = <<>> /\ state = before
          ELSE /\ result \notin {"TessellationNotSupported", "UnsupportedVerticesPerPatch"}
               /\ (Ok /\ patches) =>
                     /\ Cardinality(Emitted("PatchParameteri"))
                           = (IF before.patch_patch_vertices = n THEN 0 ELSE 1)
                     /\ Emitted("PatchParameteri")
                           = EmittedCmd("PatchParameteri", <<"PATCH_VERTICES", n>>)
                     /\ \A i \in Emitted("PatchParameteri") : \A k \in Submissions : i < k
                     /\ state.patch_patch_vertices = n
               /\ ~patches =>
                     /\ Emitted("PatchParameteri") = {}
                     /\ state.patch_patch_vertices = before.patch_patch_vertices

\* patches of a size the cache already holds, after an earlier patch draw
\* changed it, are drawn with no PatchParameteri
C33_Witness ==
    /\ Ok
    /\ req.indices.primitives.type = "Patches"
    /\ before.patch_patch_vertices = req.indices.primitives.vertices_per_patch
    /\ before.patch_patch_vertices # FreshState.patch_patch_vertices
    /\ Emitted("PatchParameteri") = {}

\* C34: base-vertex safety, given a binder that reports a non-zero base
\* vertex only when it was started with use_base_vertex = true.  No call on
\* a multidraw path or on the indexed path ends in a failed assertion or an
\* unreachable!(): a multidraw call always submits with base vertex 0, a
\* base-vertex form of DrawElements is submitted only with a non-zero base
\* vertex and only on a profile that has that form, and an indexed call on a
\* profile without one submits the plain form.
C34_BaseVertexSafe ==
    LET kind == req.indices.kind
        has == \/ VersionGE(caps.version, "Gl", 3, 2)
               \/ VersionGE(caps.version, "GlEs", 3, 2)
               \/ "gl_arb_draw_elements_base_vertex" \in caps.extensions
               \/ "gl_oes_draw_elements_base_vertex" \in caps.extensions
        forms == {"DrawElementsBaseVertex", "DrawElementsBaseVertexOES",
                  "DrawElementsInstancedBaseVertex", "DrawElementsInstancedBaseVertexOES"}
        based == {i \in Submissions : log[i].op \in forms}
    IN  (Called /\ kind # "NoIndices") =>
            /\ result # "panic"
            /\ based # {} =>
                  /\ kind = "IndexBuffer" /\ has /\ req.base_vertex # 0
                  /\ \A i \in based : log[i].a[Len(log[i].a)] = req.base_vertex
            /\ (Ok /\ kind = "IndexBuffer" /\ (~has \/ req.base_vertex = 0)) => based = {}
            /\ (Ok /\ kind = "IndexBuffer" /\ has /\ req.base_vertex # 0) => based # {}
            /\ (Ok /\ kind \in {"MultidrawArray", "MultidrawElement"}) =>
                  /\ Cardinality(Submissions) = 1
                  /\ \A i \in Submissions :
                        log[i].op = (IF kind = "MultidrawArray"
                                     THEN "MultiDrawArraysIndirect"
                                     ELSE "MultiDrawElementsIndirect")

\* a multidraw of elements succeeds although the sources were bound with a
\* base vertex of 1 on offer
C34_Witness ==
    /\ Ok
    /\ req.indices.kind = "MultidrawElement"
    /\ req.base_vertex = 1
    /\ Emitted("MultiDrawElementsIndirect") # {}

\* C35: the command a successful draw submits is this function of the
\* request.  NoIndices: DrawArraysInstanced when the scan found an instance
\* count, else DrawArrays.  IndexBuffer: the instanced form iff an instance
\* count exists and the base-vertex form iff the base vertex is not 0, with
\* the core/ARB entry point when GL >= 3.2, GLES >= 3.2 or the ARB extension
\* is present and the OES entry point only otherwise.  MultidrawArray:
\* MultiDrawArraysIndirect; MultidrawElement: MultiDrawElementsIndirect; both
\* carry only the number of indirect commands.
C35_SubmittedCommand ==
    LET indices == req.indices
        counts == Reconciled(req.vertex_buffers)
        instanced == counts.instances_count # <<>>
        core == \/ VersionGE(caps.version, "Gl", 3, 2)
                \/ VersionGE(caps.version, "GlEs", 3, 2)
                \/ "gl_arb_draw_elements_base_vertex" \in caps.extensions
        oes == "gl_oes_draw_elements_base_vertex" \in caps.extensions
        elements == IF core \/ oes THEN req.base_vertex ELSE 0
        expected ==
            CASE indices.kind = "NoIndices" ->
                    IF instanced
                    THEN Cmd("DrawArraysInstanced",
                             <<req.base_vertex, counts.vertices_count[1],
                               counts.instances_count[1]>>)
                    ELSE Cmd("DrawArrays", <<req.base_vertex, counts.vertices_count[1]>>)
              [] indices.kind = "IndexBuffer" ->
                    IF instanced /\ elements # 0
                    THEN Cmd(IF core THEN "DrawElementsInstancedBaseVertex"
                             ELSE "DrawElementsInstancedBaseVertexOES",
                             <<indices.buffer.len, counts.instances_count[1], elements>>)
                    ELSE IF instanced
                    THEN Cmd("DrawElementsInstanced",
                             <<indices.buffer.len, counts.instances_count[1]>>)
                    ELSE IF elements # 0
                    THEN Cmd(IF core THEN "DrawElementsBaseVertex"
                             ELSE "DrawElementsBaseVertexOES",
                             <<indices.buffer.len, elements>>)
                    ELSE Cmd("DrawElements", <<indices.buffer.len>>)
              [] indices.kind = "MultidrawArray" ->
                    Cmd("MultiDrawArraysIndirect", <<indices.buffer.len>>)
              [] indices.kind = "MultidrawElement" ->
                    Cmd("MultiDrawElementsIndirect", <<indices.commands.len>>)
    IN  Ok => /\ Cardinality(Submissions) = 1
              /\ \A i \in Submissions : log[i] = expected

\* an instanced indexed draw with a base vertex on ES 3.2 that also lists the
\* OES extension is submitted through the core entry point
C35_Witness ==
    /\ Ok
    /\ caps.version.api = "GlEs"
    /\ "gl_oes_draw_elements_base_vertex" \in caps.extensions
    /\ req.indices.kind = "IndexBuffer"
    /\ Emitted("DrawElementsInstancedBaseVertex") # {}

\* C36: synchronisation steps of distinct dimensions commute and converge on
\* retry.  (1) From the cache a call started with, applying the sync steps
\* of any two distinct dimensions in either order gives the same cached state
\* and the same multiset of commands.  (2) After a draw that failed once the
\* synchronisation had begun, a retry with any parameters P that succeeds
\* leaves every dimension that P determines with the cached value a draw
\* with P from the cache of before the failed draw leaves.  P determines a
\* dimension when its sync step compares every cached field of the dimension
\* with a value taken from P: always for stencil, color mask, multisampling,
\* dithering, rasterizer discard, queries, conditional rendering and
\* provoking vertex; for depth unless P is Overwrite without write; for
\* blending unless both functions are AlwaysReplace; for line width and point
\* size when P gives one; for culling and polygon mode unless culling is
\* disabled; for viewport and scissor when P gives a scissor; for the patch
\* size when the primitive is a patch; for the bounding box when the profile
\* has a path; never for smoothing, whose step addresses one primitive class.
C36_CommuteAndConverge ==
    LET Context(st, q) == [caps |-> caps, state |-> st, dev |-> dev, queries |-> q,
                           log |-> <<>>, fences |-> <<>>, err |-> "none"]
        Count(l, x) == Cardinality({j \in 1 .. Len(l) : l[j] = x})
        Then(d1, d2) ==
            SyncStep([SyncStep(Context(before, prev.queries), d1, req) EXCEPT !.err = "none"],
                     d2, req)
        Determines(r, d) ==
            CASE d = "depth" -> ~(r.params.depth_test = "Overwrite" /\ ~r.params.depth_write)
              [] d = "blend" -> ~(/\ r.params.blend.color.f = "AlwaysReplace"
                                  /\ r.params.blend.alpha.f = "AlwaysReplace")
              [] d = "line_width" -> r.params.line_width # <<>>
              [] d = "point_size" -> r.params.point_size # <<>>
              [] d = "polygon_mode" -> r.params.backface_culling # "CullingDisabled"
              [] d = "viewport_scissor" -> r.params.scissor # <<>>
              [] d = "vertices_per_patch" -> r.indices.primitives.type = "Patches"
              [] d = "primitive_bounding_box" ->
                    \/ VersionGE(caps.version, "GlEs", 3, 2)
                    \/ {"gl_arb_es3_2_compatibility", "gl_oes_primitive_bounding_box",
                        "gl_ext_primitive_bounding_box"} \cap caps.extensions # {}
              [] d = "smooth" -> FALSE
              [] OTHER -> TRUE
    IN  /\ Called =>
              \* each unordered pair once
              \A d1 \in Dims : \A d2 \in {d \in Dims \ {d1} : d1 = CHOOSE x \in {d1, d} : TRUE} :
                  LET A == Then(d1, d2)
                      B == Then(d2, d1)
                  IN  /\ A.state = B.state
                      /\ Len(A.log) = Len(B.log)
                      /\ \A i \in 1 .. Len(A.log) :
                            Count(A.log, A.log[i]) = Count(B.log, A.log[i])
        /\ (Errored /\ Emitted("bind_uniforms") # {}) =>
              \A r \in Workload(app) :
                  LET retry == draw(Context(state, queries), r)
                      fresh == draw(Context(before, prev.queries), r)
                  IN  retry.err = "none" =>
                         \A d \in Dims : Determines(r, d) =>
                             StateDim(retry.state, d) = StateDim(fresh.state, d)

\* a draw failed on the provoking vertex after it had synchronised depth,
\* stencil, blending and eight more dimensions
C36_Witness ==
    /\ result = "ProvokingVertexNotSupported"
    /\ {"depth", "stencil", "blend", "polygon_mode", "dithering", "viewport_scissor"}
          \subseteq LogDims(log)
    /\ state.enabled_blend /\ state.enabled_scissor_test /\ ~state.depth_mask
    /\ before = FreshState

\* C37: provoking vertex.  When the requested convention equals the cached
\* one the step succeeds on every profile with no command.  When it differs,
\* a successful call has emitted exactly one command (ProvokingVertex if
\* GL >= 3.2 or ARB_provoking_vertex, otherwise ProvokingVertexEXT if the EXT
\* extension is present) and updated the cache; with neither path the call
\* fails, with ProvokingVertexNotSupported whenever the same call asking for
\* the cached convention succeeds, and the cache is unchanged.  Hence on a
\* profile with neither path the cached convention stays LastVertex, a
\* LastVertex request never fails on it and a FirstVertex request never
\* succeeds.
C37_ProvokingVertexPaths ==
    LET v == IF req.params.provoking_vertex = "LastVertex"
             THEN "LAST_VERTEX_CONVENTION" ELSE "FIRST_VERTEX_CONVENTION"
        cached == before.provoking_vertex
        core == \/ VersionGE(caps.version, "Gl", 3, 2)
                \/ "gl_arb_provoking_vertex" \in caps.extensions
        ext == "gl_ext_provoking_vertex" \in caps.extensions
        commands == Emitted("ProvokingVertex") \cup Emitted("ProvokingVertexEXT")
        same == draw([caps |-> caps, state |-> before, dev |-> dev,
                      queries |-> prev.queries, log |-> <<>>, fences |-> <<>>,
                      err |-> "none"],
                     [req EXCEPT !.params.provoking_vertex =
                                     IF cached = "LAST_VERTEX_CONVENTION"
                                     THEN "LastVertex" ELSE "FirstVertex"])
    IN  Called =>
          /\ v = cached =>
                /\ result # "ProvokingVertexNotSupported"
                /\ commands = {}
                /\ state.provoking_vertex = cached
          /\ (v # cached /\ (core \/ ext)) =>
                /\ result # "ProvokingVertexNotSupported"
                /\ same.err = "none" => Ok
                /\ Ok => /\ Cardinality(commands) = 1
                         /\ \A i \in commands :
                               log[i] = Cmd(IF core THEN "ProvokingVertex"
                                            ELSE "ProvokingVertexEXT", v)
                         /\ state.provoking_vertex = v
          /\ (v # cached /\ ~core /\ ~ext) =>
                /\ ~Ok
                /\ same.err = "none" => result = "ProvokingVertexNotSupported"
                /\ commands = {}
                /\ state.provoking_vertex = cached
          /\ (~core /\ ~ext) =>
                /\ state.provoking_vertex = "LAST_VERTEX_CONVENTION"
                /\ req.params.provoking_vertex = "LastVertex" =>
                      result # "ProvokingVertexNotSupported"
                /\ req.params.provoking_vertex = "FirstVertex" => ~Ok

\* LastVertex is requested after FirstVertex on a profile with both
\* extensions: one ProvokingVertex command brings the cache back
C37_Witness ==
    /\ Ok
    /\ {"gl_arb_provoking_vertex", "gl_ext_provoking_vertex"} \subseteq caps.extensions
    /\ before.provoking_vertex = "FIRST_VERTEX_CONVENTION"
    /\ state.provoking_vertex = "LAST_VERTEX_CONVENTION"
    /\ Emitted("ProvokingVertex") # {}

\* C38: on a profile without gl_amd_depth_clamp_separate the two cached
\* depth-clamp flags are equal in every state reachable from a fresh cache;
\* a state with exactly one of the two flags set is reached only on a
\* profile that has the extension.
C38_ClampFlagsEqualWithoutAmd ==
    /\ "gl_amd_depth_clamp_separate" \notin caps.extensions =>
          state.enabled_depth_clamp_near = state.enabled_depth_clamp_far
    /\ state.enabled_depth_clamp_near # state.enabled_depth_clamp_far =>
          "gl_amd_depth_clamp_separate" \in caps.extensions

\* without the extension: a Clamp draw has set both flags, and the split
\* clamp asked for next was refused with both flags still set
C38_Witness ==
    /\ "gl_amd_depth_clamp_separate" \notin caps.extensions
    /\ Called
    /\ req.params.depth_clamp \in {"ClampNear", "ClampFar"}
    /\ before.enabled_depth_clamp_near /\ before.enabled_depth_clamp_far
    /\ state.enabled_depth_clamp_near /\ state.enabled_depth_clamp_far
    /\ dev.enabled_depth_clamp_near /\ dev.enabled_depth_clamp_far

\* C39: a draw with smooth = None changes at most the smoothing enable flag
\* of the class of the primitive drawn (none for Points): the enable flag of
\* the other class and both cached hints stay as they were, so line
\* smoothing enabled by an earlier draw is still enabled after a polygon or
\* point draw that asks for no smoothing; when the draw succeeds the flag of
\* the primitive's own class is off.  The device's flags follow the cache.
C39_NoSmoothingTouchesOwnClassOnly ==
    LET type == req.indices.primitives.type
        line == type \in LinePrimitives
    IN  (Called /\ result # "panic" /\ req.params.smooth = <<>>) =>
          /\ state.smooth = before.smooth
          /\ line => state.enabled_polygon_smooth = before.enabled_polygon_smooth
          /\ ~line => state.enabled_line_smooth = before.enabled_line_smooth
          /\ type = "Points" => state.enabled_polygon_smooth = before.enabled_polygon_smooth
          /\ (Ok /\ line) => ~state.enabled_line_smooth
          /\ (Ok /\ ~line /\ type # "Points") => ~state.enabled_polygon_smooth
          /\ dev.enabled_line_smooth = state.enabled_line_smooth
          /\ dev.enabled_polygon_smooth = state.enabled_polygon_smooth

\* line smoothing enabled with the Nicest hint by an earlier line draw is
\* still enabled, hint included, after a successful polygon draw that asked
\* for no smoothing
C39_Witness ==
    /\ Ok
    /\ req.params.smooth = <<>>
    /\ req.indices.primitives.type = "TrianglesList"
    /\ before.enabled_line_smooth /\ before.smooth[1] = "NICEST"
    /\ state.enabled_line_smooth /\ state.smooth[1] = "NICEST"
    /\ dev.enabled_line_smooth

\* C40: the cached renderbuffer binding.  A render buffer created on a path
\* without direct state access becomes the cached binding; one created with
\* direct state access leaves the cached binding as it was; dropping a render
\* buffer purges the framebuffer objects that contain it before the name is
\* deleted, and resets the cached binding to 0 if it was that buffer, leaving
\* it alone otherwise; so the cached binding is 0 or the name of a render
\* buffer that has not been deleted, in every reachable state, and it is the
\* binding the device holds.
C40_BindingNeverNamesDeleted ==
    LET purges == EmittedCmd("purge_renderbuffer", req.id)
        deletes == EmittedCmd("DeleteRenderbuffers", req.id)
                      \cup EmittedCmd("DeleteRenderbuffersEXT", req.id)
        dsa == \/ VersionGE(caps.version, "Gl", 4, 5)
               \/ "gl_arb_direct_state_access" \in caps.extensions
    IN  /\ (req.op = "new" /\ result = "Ok") =>
              /\ renderbuffers[req.id] = "alive"
              /\ state.renderbuffer =
                    (IF dsa THEN before.renderbuffer ELSE req.id)
        /\ req.op = "drop" =>
              /\ Cardinality(purges) = 1
              /\ \A i \in purges : \A j \in deletes : i < j
              /\ \A f \in framebuffers : req.id \notin f
              /\ result = "Ok" => Cardinality(deletes) = 1 /\ renderbuffers[req.id] = "unused"
              /\ state.renderbuffer =
                    (IF before.renderbuffer = req.id THEN 0 ELSE before.renderbuffer)
        /\ state.renderbuffer # 0 => renderbuffers[state.renderbuffer] = "alive"
        /\ dev.renderbuffer = state.renderbuffer
        /\ \A f \in framebuffers : \A id \in f : renderbuffers[id] = "alive"

\* two render buffers were created without direct state access, so that the
\* second was the cached binding; it was attached to a framebuffer object and
\* then dropped: the object is purged, the name deleted and the binding is 0
\* while the first buffer is still alive
C40_Witness ==
    /\ req.op = "drop" /\ result = "Ok"
    /\ "gl_arb_direct_state_access" \notin caps.extensions
    /\ ~VersionGE(caps.version, "Gl", 4, 5)
    /\ before.renderbuffer = req.id
    /\ state.renderbuffer = 0
    /\ renderbuffers[req.id] = "unused"
    /\ \E id \in RenderBufferIds : renderbuffers[id] = "alive"
    /\ framebuffers = {}
    /\ Len(log) = 2

====
